---- MODULE Spec2Model ----
(***************************************************************************)
(* A model of the gs-search indexing engine: SearchEngine over a blob      *)
(* store, with its MetaManager, IntermediateCache (append log) and         *)
(* IndexSegment.  Tokens are sequences of ASCII code units, the caches are *)
(* byte sequences framed exactly as appendBatch frames them, and a segment *)
(* file is the dictionary buildAndSave writes.                             *)
(***************************************************************************)
EXTENDS Integers, Sequences, FiniteSets, TLC

(***************************************************************************)
(* Bounds of the model.                                                    *)
(***************************************************************************)
\* document ids range over 1..MaxId
MaxId == 2
\* an add call carries at most MaxDocs documents
MaxDocs == 2
\* a log holds at most MaxLogRecords records where an id can be logged again
MaxLogRecords == 2
\* the largest catalog of a type on which a failing endBatch is tried
MaxSegments == 2

(***************************************************************************)
(* Program constants.                                                      *)
(***************************************************************************)
SEPARATOR == 30
MaxTokenBytes == 65535
MAGIC == 1229866072
DefaultWordThreshold == 100000
DefaultCharThreshold == 500000

\* An optional value (a blob that may be absent, a buffer that may be null)
\* is a set with at most one element.
NoFile == { }
Null == { }
Some(v) == { v }
Get(o) == CHOOSE v \in o : TRUE

(***************************************************************************)
(* Inputs: ids, tokenizer outputs, documents, queries, configurations.     *)
(***************************************************************************)
Ids == 1..MaxId

\* What the indexing tokenizer returns for the texts of the model: three
\* words of which two collide under Hash and one repeats; a char, an empty
\* token and a word; and no token at all.
Texts ==
    { << <<98, 97>>, <<97, 98>>, <<97, 98>> >>,
      << <<97>>, << >>, <<97, 98>> >>,
      << >> }

Docs == [id : Ids, text : Texts]

DocArrays == UNION { [1..n -> Docs] : n \in 0..MaxDocs }

\* What the search tokenizer returns for the queries of the model.
Queries ==
    { << <<97, 98>> >>,
      << <<98, 97>> >>,
      << <<97>>, << >>, <<97, 98>>, <<98, 97>> >> }

\* limit: -1 stands for an absent limit
Limits == {-1, 0, 1}

\* The engine options of the model: small thresholds so that rollover and
\* the min-save rule both happen.
Configs ==
    { [wordSegmentTokenThreshold |-> 3, charSegmentTokenThreshold |-> 2,
       minWordTokenSave |-> 0, minCharTokenSave |-> 0],
      [wordSegmentTokenThreshold |-> 3, charSegmentTokenThreshold |-> 2,
       minWordTokenSave |-> 2, minCharTokenSave |-> 0] }

(***************************************************************************)
(* Small helpers.                                                          *)
(***************************************************************************)
Range(s) == { s[i] : i \in 1..Len(s) }

Min(x, y) == IF x < y THEN x ELSE y

RECURSIVE Concat(_)
Concat(ss) == IF ss = << >> THEN << >> ELSE Head(ss) \o Concat(Tail(ss))

RECURSIVE SumSeq(_)
SumSeq(s) == IF s = << >> THEN 0 ELSE Head(s) + SumSeq(Tail(s))

\* DataView.setUint32 / setUint16 with littleEndian = true
U32LE(n) ==
    << n % 256, (n \div 256) % 256, (n \div 65536) % 256, (n \div 16777216) % 256 >>

U16LE(n) == << n % 256, (n \div 256) % 256 >>

\* DataView.getUint32 / getUint16 at a 0-based offset
GetU32(buf, off) ==
    buf[off + 1] + 256 * buf[off + 2] + 65536 * buf[off + 3] + 16777216 * buf[off + 4]

GetU16(buf, off) == buf[off + 1] + 256 * buf[off + 2]

\* TextEncoder.encode on the code units of the model, all below 2048: a
\* code unit below 128 is one byte of the same value, any other is two bytes.
\* The leading run of code units below 128 is taken in one piece.
RECURSIVE Utf8EncodeEach(_)
Utf8EncodeEach(tok) ==
    IF tok = << >> THEN << >>
    ELSE (IF Head(tok) < 128 THEN << Head(tok) >>
          ELSE << 192 + (Head(tok) \div 64), 128 + (Head(tok) % 64) >>)
             \o Utf8EncodeEach(Tail(tok))

\* the index of the first code unit (or byte) that is not below 128
FirstNonAscii(s) == CHOOSE i \in 1..Len(s) : s[i] >= 128 /\ \A j \in 1..(i - 1) : s[j] < 128

\* TextEncoder.encode
Utf8Encode(tok) ==
    IF \A i \in 1..Len(tok) : tok[i] < 128 THEN tok
    ELSE CHOOSE buf \in { SubSeq(t, 1, FirstNonAscii(t) - 1)
                              \o Utf8EncodeEach(SubSeq(t, FirstNonAscii(t), Len(t))) :
                          t \in { tok } } : TRUE

\* U+FFFD, which TextDecoder.decode puts in the place of a malformed byte
ReplacementChar == 65533

RECURSIVE Utf8DecodeFrom(_, _)
Utf8DecodeFrom(bytes, i) ==
    IF i > Len(bytes) THEN << >>
    ELSE IF bytes[i] < 128 THEN << bytes[i] >> \o Utf8DecodeFrom(bytes, i + 1)
    ELSE IF /\ bytes[i] >= 194 /\ bytes[i] < 224
            /\ i < Len(bytes) /\ bytes[i + 1] >= 128 /\ bytes[i + 1] < 192
    THEN << (bytes[i] - 192) * 64 + (bytes[i + 1] - 128) >> \o Utf8DecodeFrom(bytes, i + 2)
    ELSE << ReplacementChar >> \o Utf8DecodeFrom(bytes, i + 1)

\* TextDecoder.decode
Utf8Decode(bytes) ==
    IF \A i \in 1..Len(bytes) : bytes[i] < 128 THEN bytes
    ELSE CHOOSE str \in { SubSeq(b, 1, FirstNonAscii(b) - 1)
                              \o Utf8DecodeFrom(b, FirstNonAscii(b)) :
                          b \in { bytes } } : TRUE

(***************************************************************************)
(* Blob store (MockStorage).                                               *)
(***************************************************************************)
getFileSize(file) == IF file = NoFile THEN 0 ELSE Len(Get(file))

storageAppend(file, data) == IF file = NoFile THEN Some(data) ELSE Some(Get(file) \o data)

\* ArrayBuffer.slice(start, end): both ends are clamped to the length
storageReadRange(file, start, end) ==
    IF file = NoFile THEN Null
    ELSE LET d == Get(file)
             n == Len(d)
             s == Min(IF start < 0 THEN 0 ELSE start, n)
             e == Min(IF end < 0 THEN 0 ELSE end, n)
         IN  Some(IF e <= s THEN << >> ELSE SubSeq(d, s + 1, e))

(***************************************************************************)
(* IntermediateCache: the append log.                                      *)
(***************************************************************************)
\* one token of a record: u16 length, then at most 65535 bytes
EncodeToken(tok) ==
    LET buf == Utf8Encode(tok)
        finalBuf == IF Len(buf) > MaxTokenBytes THEN SubSeq(buf, 1, MaxTokenBytes) ELSE buf
    IN  U16LE(Len(finalBuf)) \o finalBuf

\* one record: id, token count, the tokens, the separator
EncodeDoc(doc) ==
    U32LE(doc.id) \o U32LE(Len(doc.tokens))
        \o Concat([i \in 1..Len(doc.tokens) |-> EncodeToken(doc.tokens[i])])
        \o << SEPARATOR >>

appendBatch(file, docs) ==
    IF docs = << >> THEN file
    ELSE storageAppend(file, Concat([i \in 1..Len(docs) |-> EncodeDoc(docs[i])]))

\* the inner loop of readRange: reads up to `left` tokens from `offset`
RECURSIVE DecodeTokens(_, _, _, _)
DecodeTokens(buf, offset, left, tokens) ==
    LET max == Len(buf) IN
    IF left = 0 THEN [offset |-> offset, tokens |-> tokens]
    ELSE IF offset + 2 > max THEN [offset |-> offset, tokens |-> tokens]
    ELSE LET len == GetU16(buf, offset)
             o2 == offset + 2
         IN  IF o2 + len > max THEN [offset |-> o2, tokens |-> tokens]
             ELSE DecodeTokens(buf, o2 + len, left - 1,
                               Append(tokens, Utf8Decode(SubSeq(buf, o2 + 1, o2 + len))))

\* the outer loop of readRange
RECURSIVE DecodeDocs(_, _, _)
DecodeDocs(buf, offset, docs) ==
    LET max == Len(buf) IN
    IF offset >= max THEN docs
    ELSE IF offset + 8 > max THEN docs
    ELSE LET id == GetU32(buf, offset)
             count == GetU32(buf, offset + 4)
             r == DecodeTokens(buf, offset + 8, count, << >>)
             o3 == IF r.offset < max /\ buf[r.offset + 1] = SEPARATOR
                   THEN r.offset + 1 ELSE r.offset
         IN  DecodeDocs(buf, o3, Append(docs, [id |-> id, tokens |-> r.tokens]))

\* readRange that reads from the head of the log whatever the start
readRangeFromHead(file, start, end) ==
    LET buffer == storageReadRange(file, 0, end) IN
    IF buffer = Null THEN << >>
    ELSE IF Len(Get(buffer)) = 0 THEN << >>
    ELSE DecodeDocs(Get(buffer), 0, << >>)

readRange(file, start, end) ==
    LET buffer == storageReadRange(file, start, end) IN
    IF buffer = Null THEN << >>
    ELSE IF Len(Get(buffer)) = 0 THEN << >>
    ELSE DecodeDocs(Get(buffer), 0, << >>)

(***************************************************************************)
(* IndexSegment / IndexSegment64: build and search of one inverted file.   *)
(***************************************************************************)
\* The injected hash algorithm (IHashAlgorithm.hash).  The model injects the
\* sum of the code units, under which <<97, 98>> and <<98, 97>> collide.
Hash(str) == SumSeq(str)

\* String.localeCompare(a, b) < 0 on the ASCII tokens of the model
RECURSIVE localeLess(_, _)
localeLess(a, b) ==
    IF b = << >> THEN FALSE
    ELSE IF a = << >> THEN TRUE
    ELSE IF Head(a) # Head(b) THEN Head(a) < Head(b)
    ELSE localeLess(Tail(a), Tail(b))

\* the comparator of entries.sort: by hash, then by token
EntryLess(x, y) ==
    IF x.hash # y.hash THEN x.hash < y.hash ELSE localeLess(x.token, y.token)

RECURSIVE SortEntries(_)
SortEntries(S) ==
    IF S = { } THEN << >>
    ELSE LET m == CHOOSE x \in S : \A y \in S \ {x} : EntryLess(x, y)
         IN  << m >> \o SortEntries(S \ {m})

\* tokenMap of buildAndSave: each token of a document contributes the
\* document's id once (uniqueTokens), in document order
tokenMap(docs) ==
    LET toks == UNION { Range(docs[i].tokens) : i \in 1..Len(docs) }
        hits(tok) == SelectSeq(docs, LAMBDA d : tok \in Range(d.tokens))
    IN  { [token |-> tok, hash |-> Hash(tok),
           postings |-> [i \in 1..Len(hits(tok)) |-> hits(tok)[i].id]] : tok \in toks }

\* the file buildAndSave writes: header and the sorted dictionary, each
\* entry with its hash, its token bytes and its postings
buildAndSave(docs) ==
    LET entries == SortEntries(tokenMap(docs))
    IN  [magic |-> MAGIC, count |-> Len(entries),
         entries |-> [i \in 1..Len(entries) |->
                        [hash |-> entries[i].hash,
                         tokenBytes |-> Utf8Encode(entries[i].token),
                         postings |-> entries[i].postings]]]

\* loadIndex: a handle that holds a buffer keeps it, otherwise it reads the file
loadIndex(buffer, file) == IF buffer # Null THEN buffer ELSE file

\* the binary search of IndexSegment.search on the hash column; -1 when absent
RECURSIVE BinarySearch(_, _, _, _)
BinarySearch(entries, h, left, right) ==
    IF left > right THEN -1
    ELSE LET mid == (left + right) \div 2
             entryHash == entries[mid + 1].hash
         IN  IF entryHash < h THEN BinarySearch(entries, h, mid + 1, right)
             ELSE IF entryHash > h THEN BinarySearch(entries, h, left, mid - 1)
             ELSE mid

RECURSIVE FirstMatch(_, _, _)
FirstMatch(entries, h, firstMatch) ==
    IF firstMatch > 0 /\ entries[firstMatch].hash = h
    THEN FirstMatch(entries, h, firstMatch - 1)
    ELSE firstMatch

RECURSIVE ScanRun(_, _, _, _)
ScanRun(entries, h, term, i) ==
    IF i >= Len(entries) THEN << >>
    ELSE IF entries[i + 1].hash # h THEN << >>
    ELSE IF Utf8Decode(entries[i + 1].tokenBytes) = term THEN entries[i + 1].postings
    ELSE ScanRun(entries, h, term, i + 1)

\* IndexSegment.search that returns the postings of the entry the binary
\* search lands on, without the comparison of tokens
segmentSearchFastOnly(buffer, term) ==
    IF buffer = Null THEN << >>
    ELSE LET entries == Get(buffer).entries
             count == Get(buffer).count
             h == Hash(term)
             mid == BinarySearch(entries, h, 0, count - 1)
         IN  IF mid = -1 THEN << >> ELSE entries[mid + 1].postings

\* IndexSegment.search(term) on a handle's buffer
segmentSearch(buffer, term) ==
    IF buffer = Null THEN << >>
    ELSE LET entries == Get(buffer).entries
             count == Get(buffer).count
             h == Hash(term)
             mid == BinarySearch(entries, h, 0, count - 1)
         IN  IF mid = -1 THEN << >>
             ELSE LET hasConflict ==
                          \/ (mid > 0 /\ entries[mid].hash = h)
                          \/ (mid < count - 1 /\ entries[mid + 2].hash = h)
                  IN  IF ~hasConflict THEN entries[mid + 1].postings
                      ELSE ScanRun(entries, h, term, FirstMatch(entries, h, mid))

(***************************************************************************)
(* MetaManager.                                                            *)
(***************************************************************************)
EmptyMeta == [wordSegments |-> << >>, charSegments |-> << >>]

\* the id streams hold each id as a u32 followed by the separator; the ids of
\* the model are far below 2^32, so the stream is read back as the same set
IdBlob(ids) == { GetU32(U32LE(id) \o << SEPARATOR >>, 0) : id \in ids }

getSegments(meta, type) == IF type = "word" THEN meta.wordSegments ELSE meta.charSegments

getLastSegmentInfo(meta, type) ==
    LET segments == getSegments(meta, type)
    IN  IF Len(segments) = 0 THEN Null ELSE Some(segments[Len(segments)])

updateSegment(meta, type, filename, start, end, tokenCount, isNew) ==
    LET segments == getSegments(meta, type)
        updated ==
            IF isNew
            THEN Append(segments, [filename |-> filename, start |-> start,
                                   end |-> end, tokenCount |-> tokenCount])
            ELSE IF Len(segments) > 0 /\ segments[Len(segments)].filename = filename
            THEN [segments EXCEPT ![Len(segments)] =
                      [@ EXCEPT !.end = end, !.tokenCount = tokenCount]]
            ELSE segments
    IN  IF type = "word" THEN [meta EXCEPT !.wordSegments = updated]
        ELSE [meta EXCEPT !.charSegments = updated]

\* MetaManager.load on the engine-and-storage record e: the catalog is
\* replaced, the ids read are added to the sets in memory
metaLoad(e) ==
    [e EXCEPT !.meta = IF e.metaFile # NoFile THEN Get(e.metaFile) ELSE EmptyMeta,
              !.deletedIds = @ \cup (IF e.deletedFile # NoFile THEN Get(e.deletedFile) ELSE { }),
              !.addedIds = @ \cup (IF e.addedFile # NoFile THEN Get(e.addedFile) ELSE { })]

\* MetaManager.save that writes the catalog and leaves the id blobs alone
metaSaveCatalogOnly(e) == [e EXCEPT !.metaFile = Some(e.meta)]

\* MetaManager.save: each blob is rewritten, an empty id set removes its blob
metaSave(e) ==
    [e EXCEPT !.metaFile = Some(e.meta),
              !.deletedFile = IF e.deletedIds = { } THEN NoFile ELSE Some(IdBlob(e.deletedIds)),
              !.addedFile = IF e.addedIds = { } THEN NoFile ELSE Some(IdBlob(e.addedIds))]

\* hasDocument that looks at the added ids only
hasDocumentAddedOnly(e, id) == id \in e.addedIds

hasDocument(e, id) == id \in e.addedIds \/ id \in e.deletedIds

metaReset(e) ==
    [e EXCEPT !.meta = EmptyMeta, !.deletedIds = { }, !.addedIds = { }]

(***************************************************************************)
(* SearchEngine.  The operators below work on a record e that holds the    *)
(* blobs of the store and the fields of the engine; the actions further    *)
(* down apply them to the variables.                                       *)
(***************************************************************************)
\* `${type}_seg_${nextNumber}.bin`
SegmentName(type, nextNumber) == << type, nextNumber >>

readFile(segFiles, filename) ==
    IF filename \in DOMAIN segFiles THEN Some(segFiles[filename]) ELSE NoFile

writeFile(segFiles, filename, data) ==
    [f \in DOMAIN segFiles \cup {filename} |-> IF f = filename THEN data ELSE segFiles[f]]

setSegment(segments, filename, buffer) ==
    [f \in DOMAIN segments \cup {filename} |-> IF f = filename THEN buffer ELSE segments[f]]

cacheOf(e, type) == IF type = "word" THEN e.wordCache ELSE e.charCache

\* the `|| default` of the option reads: an option of 0 reads as its default
segThreshold(cfg, type) ==
    IF type = "word"
    THEN (IF cfg.wordSegmentTokenThreshold # 0 THEN cfg.wordSegmentTokenThreshold
          ELSE DefaultWordThreshold)
    ELSE (IF cfg.charSegmentTokenThreshold # 0 THEN cfg.charSegmentTokenThreshold
          ELSE DefaultCharThreshold)

minSave(cfg, type) == IF type = "word" THEN cfg.minWordTokenSave ELSE cfg.minCharTokenSave

\* one step of the loop of #init: make the handle of a catalogued segment
\* if there is none, and load it
RECURSIVE initSegments(_, _, _)
initSegments(segments, segFiles, metas) ==
    IF metas = << >> THEN segments
    ELSE LET filename == Head(metas).filename
             handle == IF filename \in DOMAIN segments THEN segments[filename] ELSE Null
         IN  initSegments(setSegment(segments, filename,
                                     loadIndex(handle, readFile(segFiles, filename))),
                          segFiles, Tail(metas))

init(e) ==
    IF e.initialized THEN e
    ELSE LET m == metaLoad(e)
         IN  [m EXCEPT !.segments = initSegments(m.segments, m.segFiles,
                                                 m.meta.wordSegments \o m.meta.charSegments),
                       !.initialized = TRUE]

\* processSegmentLogic with every new segment starting at offset 0
processSegmentLogicFromZero(e, type, addedTokenCount) ==
    LET currentCacheSize == getFileSize(cacheOf(e, type))
        threshold == segThreshold(e.cfg, type)
        lastSegInfo == getLastSegmentInfo(e.meta, type)
        generateSegmentName == SegmentName(type, Len(getSegments(e.meta, type)) + 1)
        existingTokenCount == Get(lastSegInfo).tokenCount
        isNew ==
            \/ lastSegInfo = Null
            \/ existingTokenCount >= threshold
            \/ existingTokenCount + addedTokenCount >= threshold
        targetSegmentName == IF isNew THEN generateSegmentName ELSE Get(lastSegInfo).filename
        startOffset ==
            IF lastSegInfo = Null THEN 0
            ELSE IF isNew THEN 0
            ELSE Get(lastSegInfo).start
        newTokenCountTotal ==
            IF isNew THEN addedTokenCount ELSE existingTokenCount + addedTokenCount
        newMeta == updateSegment(e.meta, type, targetSegmentName, startOffset,
                                 currentCacheSize, newTokenCountTotal, isNew)
    IN  IF newTokenCountTotal < minSave(e.cfg, type)
        THEN [e EXCEPT !.meta = newMeta]
        ELSE LET docsToBuild == readRange(cacheOf(e, type), startOffset, currentCacheSize)
                 built == buildAndSave(docsToBuild)
             IN  [e EXCEPT !.segFiles = writeFile(@, targetSegmentName, built),
                           !.segments = setSegment(@, targetSegmentName, Some(built)),
                           !.meta = newMeta]

\* processSegmentLogic that opens a new segment only when the tail is full
processSegmentLogicWhenFull(e, type, addedTokenCount) ==
    LET currentCacheSize == getFileSize(cacheOf(e, type))
        threshold == segThreshold(e.cfg, type)
        lastSegInfo == getLastSegmentInfo(e.meta, type)
        generateSegmentName == SegmentName(type, Len(getSegments(e.meta, type)) + 1)
        existingTokenCount == Get(lastSegInfo).tokenCount
        isNew ==
            \/ lastSegInfo = Null
            \/ existingTokenCount >= threshold
        targetSegmentName == IF isNew THEN generateSegmentName ELSE Get(lastSegInfo).filename
        startOffset ==
            IF lastSegInfo = Null THEN 0
            ELSE IF isNew THEN Get(lastSegInfo).end
            ELSE Get(lastSegInfo).start
        newTokenCountTotal ==
            IF isNew THEN addedTokenCount ELSE existingTokenCount + addedTokenCount
        newMeta == updateSegment(e.meta, type, targetSegmentName, startOffset,
                                 currentCacheSize, newTokenCountTotal, isNew)
    IN  IF newTokenCountTotal < minSave(e.cfg, type)
        THEN [e EXCEPT !.meta = newMeta]
        ELSE LET docsToBuild == readRange(cacheOf(e, type), startOffset, currentCacheSize)
                 built == buildAndSave(docsToBuild)
             IN  [e EXCEPT !.segFiles = writeFile(@, targetSegmentName, built),
                           !.segments = setSegment(@, targetSegmentName, Some(built)),
                           !.meta = newMeta]

\* processSegmentLogic that catalogues the range and writes no segment file
processSegmentLogicUnbuilt(e, type, addedTokenCount) ==
    LET currentCacheSize == getFileSize(cacheOf(e, type))
        threshold == segThreshold(e.cfg, type)
        lastSegInfo == getLastSegmentInfo(e.meta, type)
        generateSegmentName == SegmentName(type, Len(getSegments(e.meta, type)) + 1)
        existingTokenCount == Get(lastSegInfo).tokenCount
        isNew ==
            \/ lastSegInfo = Null
            \/ existingTokenCount >= threshold
            \/ existingTokenCount + addedTokenCount >= threshold
        targetSegmentName == IF isNew THEN generateSegmentName ELSE Get(lastSegInfo).filename
        startOffset ==
            IF lastSegInfo = Null THEN 0
            ELSE IF isNew THEN Get(lastSegInfo).end
            ELSE Get(lastSegInfo).start
        newTokenCountTotal ==
            IF isNew THEN addedTokenCount ELSE existingTokenCount + addedTokenCount
    IN  [e EXCEPT !.meta = updateSegment(@, type, targetSegmentName, startOffset,
                                         currentCacheSize, newTokenCountTotal, isNew)]

\* #processSegmentLogic(type, addedTokenCount)
processSegmentLogic(e, type, addedTokenCount) ==
    LET currentCacheSize == getFileSize(cacheOf(e, type))
        threshold == segThreshold(e.cfg, type)
        lastSegInfo == getLastSegmentInfo(e.meta, type)
        generateSegmentName == SegmentName(type, Len(getSegments(e.meta, type)) + 1)
        existingTokenCount == Get(lastSegInfo).tokenCount
        isNew ==
            \/ lastSegInfo = Null
            \/ existingTokenCount >= threshold
            \/ existingTokenCount + addedTokenCount >= threshold
        targetSegmentName == IF isNew THEN generateSegmentName ELSE Get(lastSegInfo).filename
        startOffset ==
            IF lastSegInfo = Null THEN 0
            ELSE IF isNew THEN Get(lastSegInfo).end
            ELSE Get(lastSegInfo).start
        newTokenCountTotal ==
            IF isNew THEN addedTokenCount ELSE existingTokenCount + addedTokenCount
        newMeta == updateSegment(e.meta, type, targetSegmentName, startOffset,
                                 currentCacheSize, newTokenCountTotal, isNew)
    IN  IF newTokenCountTotal < minSave(e.cfg, type)
        THEN [e EXCEPT !.meta = newMeta]
        ELSE LET docsToBuild == readRange(cacheOf(e, type), startOffset, currentCacheSize)
                 built == buildAndSave(docsToBuild)
             IN  [e EXCEPT !.segFiles = writeFile(@, targetSegmentName, built),
                           !.segments = setSegment(@, targetSegmentName, Some(built)),
                           !.meta = newMeta]

\* the indexing tokenizer of the model returns the token list the text stands for
indexingTokenizer(doc) == doc.text

\* the search tokenizer defaults to the indexing tokenizer
searchTokenizer(query) == indexingTokenizer([text |-> query])

wordTokens(rawTokens) == SelectSeq(rawTokens, LAMBDA t : Len(t) > 1)

charTokens(rawTokens) == SelectSeq(rawTokens, LAMBDA t : Len(t) = 1)

\* batchWordDocs / batchCharDocs: one record per document that has a token of the type
RECURSIVE batchDocs(_, _)
batchDocs(docs, type) ==
    IF docs = << >> THEN << >>
    ELSE LET raw == indexingTokenizer(Head(docs))
             toks == IF type = "word" THEN wordTokens(raw) ELSE charTokens(raw)
             rest == batchDocs(Tail(docs), type)
         IN  IF Len(toks) > 0 THEN << [id |-> Head(docs).id, tokens |-> toks] >> \o rest
             ELSE rest

tokenTotal(tdocs) == SumSeq([i \in 1..Len(tdocs) |-> Len(tdocs[i].tokens)])

\* addKept without the batch branch: it builds and saves in batch mode too
addKeptEager(e, kept) ==
    LET batchWordDocs == batchDocs(kept, "word")
        batchCharDocs == batchDocs(kept, "char")
        addedWordTokens == tokenTotal(batchWordDocs)
        addedCharTokens == tokenTotal(batchCharDocs)
        e1 == [e EXCEPT !.wordCache = appendBatch(@, batchWordDocs),
                        !.charCache = appendBatch(@, batchCharDocs),
                        !.addedIds = @ \cup { kept[i].id : i \in 1..Len(kept) }]
        e2 == IF addedWordTokens > 0
              THEN processSegmentLogic(e1, "word", addedWordTokens) ELSE e1
        e3 == IF addedCharTokens > 0
              THEN processSegmentLogic(e2, "char", addedCharTokens) ELSE e2
    IN  metaSave(e3)

\* addKept that records in addedIds only the documents that left a log record
addKeptTokenizedOnly(e, kept) ==
    LET batchWordDocs == batchDocs(kept, "word")
        batchCharDocs == batchDocs(kept, "char")
        addedWordTokens == tokenTotal(batchWordDocs)
        addedCharTokens == tokenTotal(batchCharDocs)
        e1 == [e EXCEPT !.wordCache = appendBatch(@, batchWordDocs),
                        !.charCache = appendBatch(@, batchCharDocs),
                        !.addedIds = @ \cup { batchWordDocs[i].id : i \in 1..Len(batchWordDocs) }
                                       \cup { batchCharDocs[i].id : i \in 1..Len(batchCharDocs) }]
    IN  IF e1.inBatch
        THEN [e1 EXCEPT !.pending = [word |-> @.word + addedWordTokens,
                                     char |-> @.char + addedCharTokens]]
        ELSE LET e2 == IF addedWordTokens > 0
                       THEN processSegmentLogic(e1, "word", addedWordTokens) ELSE e1
                 e3 == IF addedCharTokens > 0
                       THEN processSegmentLogic(e2, "char", addedCharTokens) ELSE e2
             IN  metaSave(e3)

\* steps 2 and 3 of addDocuments / addDocumentsIfMissing for the documents kept
addKept(e, kept) ==
    LET batchWordDocs == batchDocs(kept, "word")
        batchCharDocs == batchDocs(kept, "char")
        addedWordTokens == tokenTotal(batchWordDocs)
        addedCharTokens == tokenTotal(batchCharDocs)
        e1 == [e EXCEPT !.wordCache = appendBatch(@, batchWordDocs),
                        !.charCache = appendBatch(@, batchCharDocs),
                        !.addedIds = @ \cup { kept[i].id : i \in 1..Len(kept) }]
    IN  IF e1.inBatch
        THEN [e1 EXCEPT !.pending = [word |-> @.word + addedWordTokens,
                                     char |-> @.char + addedCharTokens]]
        ELSE LET e2 == IF addedWordTokens > 0
                       THEN processSegmentLogic(e1, "word", addedWordTokens) ELSE e1
                 e3 == IF addedCharTokens > 0
                       THEN processSegmentLogic(e2, "char", addedCharTokens) ELSE e2
             IN  metaSave(e3)

\* the first document a strict add rejects, 0 if none: the check reads the sets
\* as they are when the call starts
RECURSIVE firstConflict(_, _, _)
firstConflict(e, docs, i) ==
    IF i > Len(docs) THEN 0
    ELSE IF docs[i].id \in e.deletedIds \/ docs[i].id \in e.addedIds THEN i
    ELSE firstConflict(e, docs, i + 1)

\* addDocuments that appends each document's records before it checks the next
\* document: a conflict leaves the records of the documents before it in the logs
addDocumentsOpAppendsAsChecked(e, docs) ==
    LET e0 == init(e)
        c == firstConflict(e0, docs, 1)
        before == SubSeq(docs, 1, c - 1)
    IN  IF Len(docs) = 0 THEN [e |-> e0, ok |-> TRUE, err |-> "none", accepted |-> << >>]
        ELSE IF c # 0
        THEN [e |-> [e0 EXCEPT !.wordCache = appendBatch(@, batchDocs(before, "word")),
                               !.charCache = appendBatch(@, batchDocs(before, "char"))],
              ok |-> FALSE,
              err |-> IF docs[c].id \in e0.deletedIds THEN "deleted" ELSE "exists",
              accepted |-> << >>]
        ELSE [e |-> addKept(e0, docs), ok |-> TRUE, err |-> "none", accepted |-> docs]

\* addDocuments(docs): the engine after the call, and how the call ended
addDocumentsOp(e, docs) ==
    LET e0 == init(e)
        c == firstConflict(e0, docs, 1)
    IN  IF Len(docs) = 0 THEN [e |-> e0, ok |-> TRUE, err |-> "none", accepted |-> << >>]
        ELSE IF c # 0
        THEN [e |-> e0, ok |-> FALSE,
              err |-> IF docs[c].id \in e0.deletedIds THEN "deleted" ELSE "exists",
              accepted |-> << >>]
        ELSE [e |-> addKept(e0, docs), ok |-> TRUE, err |-> "none", accepted |-> docs]

\* newDocsOf without the deletedIds test
newDocsOfNotAdded(e, docs) ==
    SelectSeq(docs, LAMBDA d : ~(d.id \in e.addedIds))

\* newDocs of addDocumentsIfMissing
newDocsOf(e, docs) ==
    SelectSeq(docs, LAMBDA d : ~(d.id \in e.deletedIds) /\ ~(d.id \in e.addedIds))

addDocumentsIfMissingOp(e, docs) ==
    LET e0 == init(e)
        newDocs == newDocsOf(e0, docs)
    IN  IF Len(docs) = 0 \/ Len(newDocs) = 0
        THEN [e |-> e0, ok |-> TRUE, err |-> "none", accepted |-> << >>]
        ELSE [e |-> addKept(e0, newDocs), ok |-> TRUE, err |-> "none", accepted |-> newDocs]

\* startBatchOp without the reset of #pendingTokenCounts
startBatchOpKeepPending(e) == [e EXCEPT !.inBatch = TRUE]

startBatchOp(e) == [e EXCEPT !.inBatch = TRUE, !.pending = [word |-> 0, char |-> 0]]

endBatchOp(e) ==
    LET e1 == [e EXCEPT !.inBatch = FALSE]
        e2 == IF e1.pending.word > 0
              THEN processSegmentLogic(e1, "word", e1.pending.word) ELSE e1
        e3 == IF e2.pending.char > 0
              THEN processSegmentLogic(e2, "char", e2.pending.char) ELSE e2
    IN  metaSave([e3 EXCEPT !.pending = [word |-> 0, char |-> 0]])

\* removeDocumentOp without removeAddedId
removeDocumentOpKeepAdded(e, id) ==
    LET e0 == init(e)
    IN  metaSave([e0 EXCEPT !.deletedIds = @ \cup {id}])

removeDocumentOp(e, id) ==
    LET e0 == init(e)
    IN  metaSave([e0 EXCEPT !.deletedIds = @ \cup {id}, !.addedIds = @ \ {id}])

\* clearAllOp without this.#meta.reset()
clearAllOpKeepMeta(e) ==
    [e EXCEPT !.wordCache = NoFile, !.charCache = NoFile,
              !.segFiles = << >>, !.metaFile = NoFile,
              !.deletedFile = NoFile, !.addedFile = NoFile,
              !.segments = << >>, !.initialized = FALSE,
              !.inBatch = FALSE, !.pending = [word |-> 0, char |-> 0]]

clearAllOp(e) ==
    metaReset([e EXCEPT !.wordCache = NoFile, !.charCache = NoFile,
                        !.segFiles = << >>, !.metaFile = NoFile,
                        !.deletedFile = NoFile, !.addedFile = NoFile,
                        !.segments = << >>, !.initialized = FALSE,
                        !.inBatch = FALSE, !.pending = [word |-> 0, char |-> 0]])

\* SearchEngine.hasDocument(id)
hasDocumentOp(e, id) ==
    LET e0 == init(e)
    IN  [e |-> e0, value |-> hasDocument(e0, id)]

getStatusOp(e) ==
    LET e0 == init(e)
    IN  [e |-> e0,
         value |-> [wordSegments |-> Len(getSegments(e0.meta, "word")),
                    charSegments |-> Len(getSegments(e0.meta, "char")),
                    deleted |-> Cardinality(e0.deletedIds),
                    wordCacheSize |-> getFileSize(e0.wordCache),
                    charCacheSize |-> getFileSize(e0.charCache),
                    inBatch |-> e0.inBatch]]

(***************************************************************************)
(* SearchEngine.search.                                                    *)
(***************************************************************************)
\* collectSegments and the batch load: a catalogued segment that has no
\* handle gets one if its file can be read
RECURSIVE loadMissing(_, _, _)
loadMissing(segments, segFiles, metas) ==
    IF metas = << >> THEN segments
    ELSE LET filename == Head(metas).filename
             loaded == loadIndex(Null, readFile(segFiles, filename))
         IN  loadMissing(IF ~(filename \in DOMAIN segments) /\ loaded # Null
                         THEN setSegment(segments, filename, loaded) ELSE segments,
                         segFiles, Tail(metas))

\* scores are kept in tenths: 1 + term.length * 0.1 is 10 + Len(term)
termScoreOf(term) == 10 + Len(term)

\* applyHit without the deletedIds test of its first line
applyHitUnfiltered(docMatches, id, term, deletedIds) ==
    IF ~(\E i \in 1..Len(docMatches) : docMatches[i].id = id)
    THEN Append(docMatches, [id |-> id, score |-> 0, tokens |-> << term >>])
    ELSE [i \in 1..Len(docMatches) |->
            IF docMatches[i].id = id
            THEN [docMatches[i] EXCEPT
                    !.score = @ + termScoreOf(term),
                    !.tokens = IF term \in Range(@) THEN @ ELSE Append(@, term)]
            ELSE docMatches[i]]

\* one hit of processTerms on docMatches, kept in insertion order
applyHit(docMatches, id, term, deletedIds) ==
    IF id \in deletedIds THEN docMatches
    ELSE IF ~(\E i \in 1..Len(docMatches) : docMatches[i].id = id)
    THEN Append(docMatches, [id |-> id, score |-> 0, tokens |-> << term >>])
    ELSE [i \in 1..Len(docMatches) |->
            IF docMatches[i].id = id
            THEN [docMatches[i] EXCEPT
                    !.score = @ + termScoreOf(term),
                    !.tokens = IF term \in Range(@) THEN @ ELSE Append(@, term)]
            ELSE docMatches[i]]

RECURSIVE foldHits(_, _, _, _)
foldHits(docMatches, hits, term, deletedIds) ==
    IF hits = << >> THEN docMatches
    ELSE foldHits(applyHit(docMatches, Head(hits), term, deletedIds),
                  Tail(hits), term, deletedIds)

RECURSIVE foldTerms(_, _, _, _)
foldTerms(docMatches, buffer, terms, deletedIds) ==
    IF terms = << >> THEN docMatches
    ELSE foldTerms(foldHits(docMatches, segmentSearch(buffer, Head(terms)),
                            Head(terms), deletedIds),
                   buffer, Tail(terms), deletedIds)

\* processTerms(type, terms) over the catalogued segments of the type
RECURSIVE processTerms(_, _, _, _, _)
processTerms(docMatches, segments, metas, terms, deletedIds) ==
    IF terms = << >> \/ metas = << >> THEN docMatches
    ELSE LET filename == Head(metas).filename
             next == IF filename \in DOMAIN segments
                     THEN foldTerms(docMatches, segments[filename], terms, deletedIds)
                     ELSE docMatches
         IN  processTerms(next, segments, Tail(metas), terms, deletedIds)

\* results.sort left out: the results stay in insertion order
sortByScoreSkipped(results) == results

\* Array.prototype.sort with (a, b) => b.score - a.score: stable, descending
RECURSIVE insertByScore(_, _)
insertByScore(sorted, x) ==
    IF sorted = << >> THEN << x >>
    ELSE IF Head(sorted).score >= x.score THEN << Head(sorted) >> \o insertByScore(Tail(sorted), x)
    ELSE << x >> \o sorted

RECURSIVE sortByScore(_)
sortByScore(results) ==
    IF results = << >> THEN << >>
    ELSE insertByScore(sortByScore(SubSeq(results, 1, Len(results) - 1)),
                       results[Len(results)])

\* results.slice(0, limit) for a numeric limit > 0; -1 is the absent limit
applyLimit(results, limit) ==
    IF limit > 0 THEN SubSeq(results, 1, Min(limit, Len(results))) ELSE results

\* docMatches when both processTerms calls are done, in insertion order
docMatchesOf(e, query) ==
    LET e0 == init(e)
        rawTokens == searchTokenizer(query)
        wordTerms == wordTokens(rawTokens)
        charTerms == charTokens(rawTokens)
        segs == loadMissing(e0.segments, e0.segFiles,
                            e0.meta.wordSegments \o e0.meta.charSegments)
        m1 == processTerms(<< >>, segs, e0.meta.wordSegments, wordTerms, e0.deletedIds)
    IN  processTerms(m1, segs, e0.meta.charSegments, charTerms, e0.deletedIds)

searchOp(e, query, limit) ==
    LET e0 == init(e)
        segs == loadMissing(e0.segments, e0.segFiles,
                            e0.meta.wordSegments \o e0.meta.charSegments)
    IN  [e |-> [e0 EXCEPT !.segments = segs],
         value |-> applyLimit(sortByScore(docMatchesOf(e, query)), limit)]

(***************************************************************************)
(* State.                                                                  *)
(***************************************************************************)
VARIABLES
    \* the blob store
    wordCache, charCache, segFiles, metaFile, deletedFile, addedFile,
    \* the engine
    cfg, initialized, inBatch, pending, meta, deletedIds, addedIds, segments,
    \* history: the documents taken in since the engine entered batch mode
    batchAdded,
    \* a call of a function of the program on its own, outside the engine's
    \* run, and what it returned (Null until it has returned)
    call, result,
    \* the addDocuments calls that were started and not awaited: for each
    \* caller the statement it resumes at, its argument and its local variables
    inFlight

storeVars == << wordCache, charCache, segFiles, metaFile, deletedFile, addedFile >>

engineVars == << cfg, initialized, inBatch, pending, meta, deletedIds, addedIds, segments >>

vars == << storeVars, engineVars, batchAdded, call, result, inFlight >>

\* the store and the engine as one record
Cur ==
    [wordCache |-> wordCache, charCache |-> charCache, segFiles |-> segFiles,
     metaFile |-> metaFile, deletedFile |-> deletedFile, addedFile |-> addedFile,
     cfg |-> cfg, initialized |-> initialized, inBatch |-> inBatch, pending |-> pending,
     meta |-> meta, deletedIds |-> deletedIds, addedIds |-> addedIds,
     segments |-> segments]

\* a caller whose addDocuments has not been called
NotCalled ==
    [pc |-> "idle", docs |-> << >>,
     locals |-> [currentCacheSize |-> 0, targetSegmentName |-> SegmentName("none", 0),
                 startOffset |-> 0, isNew |-> FALSE, newTokenCountTotal |-> 0,
                 docsToBuild |-> << >>]]

Callers == {1, 2}

Assigns(e) ==
    /\ wordCache' = e.wordCache
    /\ charCache' = e.charCache
    /\ segFiles' = e.segFiles
    /\ metaFile' = e.metaFile
    /\ deletedFile' = e.deletedFile
    /\ addedFile' = e.addedFile
    /\ cfg' = e.cfg
    /\ initialized' = e.initialized
    /\ inBatch' = e.inBatch
    /\ pending' = e.pending
    /\ meta' = e.meta
    /\ deletedIds' = e.deletedIds
    /\ addedIds' = e.addedIds
    /\ segments' = e.segments

Becomes(e) ==
    /\ Assigns(e)
    /\ UNCHANGED << call, result, inFlight >>

\* new SearchEngine(config) over an empty store
Init ==
    /\ wordCache = NoFile
    /\ charCache = NoFile
    /\ segFiles = << >>
    /\ metaFile = NoFile
    /\ deletedFile = NoFile
    /\ addedFile = NoFile
    /\ cfg \in Configs
    /\ initialized = FALSE
    /\ inBatch = FALSE
    /\ pending = [word |-> 0, char |-> 0]
    /\ meta = EmptyMeta
    /\ deletedIds = { }
    /\ addedIds = { }
    /\ segments = << >>
    /\ batchAdded = { }
    /\ call = Null
    /\ result = Null
    /\ inFlight = [p \in Callers |-> NotCalled]

(***************************************************************************)
(* Actions: one per public method.                                         *)
(***************************************************************************)
IdsOf(docs) == [i \in 1..Len(docs) |-> docs[i].id]

\* batchAdded follows the calls: it is emptied when batch mode is entered
\* from outside and whenever the engine is not in batch mode
TrackBatch(accepted) ==
    batchAdded' =
        IF inBatch' THEN (IF inBatch THEN batchAdded ELSE { }) \cup accepted
        ELSE { }

addDocuments(docs) ==
    LET r == addDocumentsOp(Cur, docs)
    IN  /\ Becomes(r.e)
        /\ TrackBatch(Range(r.accepted))

addDocumentsIfMissing(docs) ==
    LET r == addDocumentsIfMissingOp(Cur, docs)
    IN  /\ Becomes(r.e)
        /\ TrackBatch(Range(r.accepted))

startBatch ==
    /\ Becomes(startBatchOp(Cur))
    /\ TrackBatch({ })

endBatch ==
    /\ Becomes(endBatchOp(Cur))
    /\ TrackBatch({ })

removeDocument(id) ==
    /\ Becomes(removeDocumentOp(Cur, id))
    /\ TrackBatch({ })

search(query, limit) ==
    /\ Becomes(searchOp(Cur, query, limit).e)
    /\ TrackBatch({ })

clearAll ==
    /\ Becomes(clearAllOp(Cur))
    /\ TrackBatch({ })

getStatus ==
    /\ Becomes(getStatusOp(Cur).e)
    /\ TrackBatch({ })

hasDocumentCall(id) ==
    /\ Becomes(hasDocumentOp(Cur, id).e)
    /\ TrackBatch({ })

Next ==
    \/ \E docs \in DocArrays : addDocuments(docs)
    \/ \E docs \in DocArrays : addDocumentsIfMissing(docs)
    \/ startBatch
    \/ endBatch
    \/ \E id \in Ids : removeDocument(id)
    \/ \E query \in Queries, limit \in Limits : search(query, limit)
    \/ clearAll
    \/ getStatus
    \/ \E id \in Ids : hasDocumentCall(id)

Spec == Init /\ [][Next]_vars

(***************************************************************************)
(* A second engine over the same store.  new SearchEngine(config) starts   *)
(* with the fields of the constructor and reads nothing until its first    *)
(* call runs #init.                                                        *)
(***************************************************************************)
reopenOp(e) ==
    [e EXCEPT !.initialized = FALSE, !.inBatch = FALSE,
              !.pending = [word |-> 0, char |-> 0], !.meta = EmptyMeta,
              !.deletedIds = { }, !.addedIds = { }, !.segments = << >>]

Reopen ==
    /\ Becomes(reopenOp(Cur))
    /\ TrackBatch({ })

\* the logs have room for the records of n documents: this keeps the logs of the
\* specifications below finite, where an id can be taken in more than once
LogRoom(n) ==
    /\ Len(readRange(wordCache, 0, getFileSize(wordCache))) + n <= MaxLogRecords
    /\ Len(readRange(charCache, 0, getFileSize(charCache))) + n <= MaxLogRecords

NextReopen ==
    \/ \E n \in 0..MaxDocs : LogRoom(n) /\ \E docs \in [1..n -> Docs] : addDocuments(docs)
    \/ \E n \in 0..MaxDocs : LogRoom(n) /\ \E docs \in [1..n -> Docs] : addDocumentsIfMissing(docs)
    \/ startBatch
    \/ endBatch
    \/ \E id \in Ids : removeDocument(id)
    \/ \E query \in Queries, limit \in Limits : search(query, limit)
    \/ clearAll
    \/ getStatus
    \/ \E id \in Ids : hasDocumentCall(id)
    \/ Reopen

SpecReopen == Init /\ [][NextReopen]_vars

(***************************************************************************)
(* Storage errors.  A call of the blob store that throws changes no blob   *)
(* (writes are atomic) and ends the method at that line: what the method   *)
(* did before stays done, in the store and in memory.  The operators below *)
(* give the record e at the throw, or Null when the method never reaches   *)
(* the call named by `at`.                                                 *)
(***************************************************************************)
AddFaults ==
    {"wordAppend", "charAppend", "wordBuild", "charBuild",
     "saveMeta", "saveDeleted", "saveAdded"}

EndFaults == {"wordBuild", "charBuild", "saveMeta", "saveDeleted", "saveAdded"}

\* MetaManager.save thrown out of at the write of the catalog, of the deleted
\* ids or of the added ids
metaSaveFailing(e, at) ==
    IF at = "saveMeta" THEN e
    ELSE IF at = "saveDeleted" THEN [e EXCEPT !.metaFile = Some(e.meta)]
    ELSE [e EXCEPT !.metaFile = Some(e.meta),
                   !.deletedFile = IF e.deletedIds = { } THEN NoFile
                                   ELSE Some(IdBlob(e.deletedIds))]

\* #processSegmentLogic thrown out of at the write of buildAndSave: the
\* handle of the target segment is there, its buffer and the catalog are as
\* they were
processSegmentLogicFailing(e, type, addedTokenCount) ==
    LET threshold == segThreshold(e.cfg, type)
        lastSegInfo == getLastSegmentInfo(e.meta, type)
        generateSegmentName == SegmentName(type, Len(getSegments(e.meta, type)) + 1)
        existingTokenCount == Get(lastSegInfo).tokenCount
        isNew ==
            \/ lastSegInfo = Null
            \/ existingTokenCount >= threshold
            \/ existingTokenCount + addedTokenCount >= threshold
        targetSegmentName == IF isNew THEN generateSegmentName ELSE Get(lastSegInfo).filename
        newTokenCountTotal ==
            IF isNew THEN addedTokenCount ELSE existingTokenCount + addedTokenCount
    IN  IF newTokenCountTotal < minSave(e.cfg, type) THEN Null
        ELSE IF targetSegmentName \in DOMAIN e.segments THEN Some(e)
        ELSE Some([e EXCEPT !.segments = setSegment(@, targetSegmentName, Null)])

\* steps 2 and 3 of an add thrown out of at the call `at`
addKeptFailing(e, kept, at) ==
    LET batchWordDocs == batchDocs(kept, "word")
        batchCharDocs == batchDocs(kept, "char")
        addedWordTokens == tokenTotal(batchWordDocs)
        addedCharTokens == tokenTotal(batchCharDocs)
        afterWord == [e EXCEPT !.wordCache = appendBatch(@, batchWordDocs)]
        e1 == [afterWord EXCEPT !.charCache = appendBatch(@, batchCharDocs),
                                !.addedIds = @ \cup { kept[i].id : i \in 1..Len(kept) }]
        e2 == IF addedWordTokens > 0
              THEN processSegmentLogic(e1, "word", addedWordTokens) ELSE e1
        e3 == IF addedCharTokens > 0
              THEN processSegmentLogic(e2, "char", addedCharTokens) ELSE e2
    IN  IF at = "wordAppend" THEN (IF Len(batchWordDocs) > 0 THEN Some(e) ELSE Null)
        ELSE IF at = "charAppend"
        THEN (IF Len(batchCharDocs) > 0 THEN Some(afterWord) ELSE Null)
        ELSE IF e1.inBatch THEN Null
        ELSE IF at = "wordBuild"
        THEN (IF addedWordTokens > 0
              THEN processSegmentLogicFailing(e1, "word", addedWordTokens) ELSE Null)
        ELSE IF at = "charBuild"
        THEN (IF addedCharTokens > 0
              THEN processSegmentLogicFailing(e2, "char", addedCharTokens) ELSE Null)
        ELSE Some(metaSaveFailing(e3, at))

addDocumentsFailingOp(e, docs, at) ==
    LET e0 == init(e)
    IN  IF Len(docs) = 0 \/ firstConflict(e0, docs, 1) # 0 THEN Null
        ELSE addKeptFailing(e0, docs, at)

addDocumentsIfMissingFailingOp(e, docs, at) ==
    LET e0 == init(e)
        newDocs == newDocsOf(e0, docs)
    IN  IF Len(docs) = 0 \/ Len(newDocs) = 0 THEN Null
        ELSE addKeptFailing(e0, newDocs, at)

endBatchFailingOp(e, at) ==
    LET e1 == [e EXCEPT !.inBatch = FALSE]
        e2 == IF e1.pending.word > 0
              THEN processSegmentLogic(e1, "word", e1.pending.word) ELSE e1
        e3 == IF e2.pending.char > 0
              THEN processSegmentLogic(e2, "char", e2.pending.char) ELSE e2
    IN  IF at = "wordBuild"
        THEN (IF e1.pending.word > 0
              THEN processSegmentLogicFailing(e1, "word", e1.pending.word) ELSE Null)
        ELSE IF at = "charBuild"
        THEN (IF e2.pending.char > 0
              THEN processSegmentLogicFailing(e2, "char", e2.pending.char) ELSE Null)
        ELSE Some(metaSaveFailing([e3 EXCEPT !.pending = [word |-> 0, char |-> 0]], at))

addDocumentsFails(docs, at) ==
    LET r == addDocumentsFailingOp(Cur, docs, at)
    IN  /\ r # Null
        /\ Becomes(Get(r))
        /\ TrackBatch({ })

addDocumentsIfMissingFails(docs, at) ==
    LET r == addDocumentsIfMissingFailingOp(Cur, docs, at)
    IN  /\ r # Null
        /\ Becomes(Get(r))
        /\ TrackBatch({ })

\* a failed endBatch can process the same pending count again and again, each
\* time with a descriptor more: the catalog is capped to keep the model finite
CatalogRoom == \A type \in { "word", "char" } : Len(getSegments(meta, type)) < MaxSegments

endBatchFails(at) ==
    LET r == endBatchFailingOp(Cur, at)
    IN  /\ CatalogRoom
        /\ r # Null
        /\ Becomes(Get(r))
        /\ TrackBatch({ })

\* the calls of Next, each add and endBatch of which may also end in a
\* storage error
NextFault ==
    \/ \E n \in 0..MaxDocs : LogRoom(n) /\ \E docs \in [1..n -> Docs] : addDocuments(docs)
    \/ \E n \in 0..MaxDocs : LogRoom(n) /\ \E docs \in [1..n -> Docs] : addDocumentsIfMissing(docs)
    \/ startBatch
    \/ endBatch
    \/ \E id \in Ids : removeDocument(id)
    \/ \E query \in Queries, limit \in Limits : search(query, limit)
    \/ clearAll
    \/ getStatus
    \/ \E id \in Ids : hasDocumentCall(id)
    \/ \E n \in 0..MaxDocs :
           LogRoom(n) /\ \E docs \in [1..n -> Docs] : \E at \in AddFaults : addDocumentsFails(docs, at)
    \/ \E n \in 0..MaxDocs :
           LogRoom(n) /\ \E docs \in [1..n -> Docs] : \E at \in AddFaults : addDocumentsIfMissingFails(docs, at)
    \/ \E at \in EndFaults : endBatchFails(at)

SpecFault == Init /\ [][NextFault]_vars

(***************************************************************************)
(* The end of the process in the middle of an add.  The store keeps what   *)
(* the add wrote before the process ended, which is what it holds when the *)
(* add is thrown out of at one of the calls after the first append and up  *)
(* to the save; the next engine is constructed over that store.            *)
(***************************************************************************)
CrashPoints == {"charAppend", "wordBuild", "charBuild", "saveMeta"}

addDocumentsCrashes(docs, at) ==
    LET r == addDocumentsFailingOp(Cur, docs, at)
    IN  /\ r # Null
        /\ Get(r).wordCache # init(Cur).wordCache \/ Get(r).charCache # init(Cur).charCache
        /\ Becomes(reopenOp(Get(r)))
        /\ TrackBatch({ })

addDocumentsIfMissingCrashes(docs, at) ==
    LET r == addDocumentsIfMissingFailingOp(Cur, docs, at)
    IN  /\ r # Null
        /\ Get(r).wordCache # init(Cur).wordCache \/ Get(r).charCache # init(Cur).charCache
        /\ Becomes(reopenOp(Get(r)))
        /\ TrackBatch({ })

NextCrash ==
    \/ \E n \in 0..MaxDocs : LogRoom(n) /\ \E docs \in [1..n -> Docs] : addDocuments(docs)
    \/ \E n \in 0..MaxDocs : LogRoom(n) /\ \E docs \in [1..n -> Docs] : addDocumentsIfMissing(docs)
    \/ startBatch
    \/ endBatch
    \/ \E id \in Ids : removeDocument(id)
    \/ \E query \in Queries, limit \in Limits : search(query, limit)
    \/ clearAll
    \/ getStatus
    \/ \E id \in Ids : hasDocumentCall(id)
    \/ Reopen
    \/ \E n \in 0..MaxDocs :
           LogRoom(n) /\ \E docs \in [1..n -> Docs] : \E at \in CrashPoints : addDocumentsCrashes(docs, at)
    \/ \E n \in 0..MaxDocs :
           LogRoom(n) /\ \E docs \in [1..n -> Docs] : \E at \in CrashPoints : addDocumentsIfMissingCrashes(docs, at)

SpecCrash == Init /\ [][NextCrash]_vars

(***************************************************************************)
(* The end of the process in the middle of MetaManager.save, at the end of *)
(* an add, of removeDocument or of endBatch: the store keeps the blobs     *)
(* that save wrote before the process ended, and the next engine is        *)
(* constructed over that store.                                            *)
(***************************************************************************)
SavePoints == {"saveMeta", "saveDeleted", "saveAdded"}

removeDocumentFailingOp(e, id, at) ==
    LET e0 == init(e)
    IN  metaSaveFailing([e0 EXCEPT !.deletedIds = @ \cup {id}, !.addedIds = @ \ {id}], at)

addDocumentsDiesInSave(docs, at) ==
    LET r == addDocumentsFailingOp(Cur, docs, at)
    IN  /\ r # Null
        /\ Becomes(reopenOp(Get(r)))
        /\ TrackBatch({ })

addDocumentsIfMissingDiesInSave(docs, at) ==
    LET r == addDocumentsIfMissingFailingOp(Cur, docs, at)
    IN  /\ r # Null
        /\ Becomes(reopenOp(Get(r)))
        /\ TrackBatch({ })

removeDocumentDiesInSave(id, at) ==
    /\ Becomes(reopenOp(removeDocumentFailingOp(Cur, id, at)))
    /\ TrackBatch({ })

endBatchDiesInSave(at) ==
    /\ Becomes(reopenOp(Get(endBatchFailingOp(Cur, at))))
    /\ TrackBatch({ })

NextSaveCrash ==
    \/ \E n \in 0..MaxDocs : LogRoom(n) /\ \E docs \in [1..n -> Docs] : addDocuments(docs)
    \/ \E n \in 0..MaxDocs : LogRoom(n) /\ \E docs \in [1..n -> Docs] : addDocumentsIfMissing(docs)
    \/ startBatch
    \/ endBatch
    \/ \E id \in Ids : removeDocument(id)
    \/ \E query \in Queries, limit \in Limits : search(query, limit)
    \/ clearAll
    \/ getStatus
    \/ \E id \in Ids : hasDocumentCall(id)
    \/ Reopen
    \/ \E n \in 0..MaxDocs :
           LogRoom(n) /\ \E docs \in [1..n -> Docs] : \E at \in SavePoints : addDocumentsDiesInSave(docs, at)
    \/ \E n \in 0..MaxDocs :
           LogRoom(n) /\ \E docs \in [1..n -> Docs] : \E at \in SavePoints : addDocumentsIfMissingDiesInSave(docs, at)
    \/ \E id \in Ids, at \in SavePoints : removeDocumentDiesInSave(id, at)
    \/ \E at \in SavePoints : endBatchDiesInSave(at)

SpecSaveCrash == Init /\ [][NextSaveCrash]_vars

(***************************************************************************)
(* A segment file damaged in the store.  The header of a file is malformed *)
(* when its magic is not 0x494E4458; the damage is done behind the engine, *)
(* to one file at a time, and a later build of the segment writes the file *)
(* anew.                                                                   *)
(***************************************************************************)
Malformed(file) == file.magic # MAGIC

DamageSegment(filename) ==
    /\ filename \in DOMAIN segFiles
    /\ \A f \in DOMAIN segFiles : ~Malformed(segFiles[f])
    /\ Becomes([Cur EXCEPT !.segFiles[filename].magic = 0])
    /\ UNCHANGED batchAdded

NextDamage ==
    \/ \E n \in 0..MaxDocs : LogRoom(n) /\ \E docs \in [1..n -> Docs] : addDocuments(docs)
    \/ \E n \in 0..MaxDocs : LogRoom(n) /\ \E docs \in [1..n -> Docs] : addDocumentsIfMissing(docs)
    \/ startBatch
    \/ endBatch
    \/ \E id \in Ids : removeDocument(id)
    \/ \E query \in Queries, limit \in Limits : search(query, limit)
    \/ clearAll
    \/ getStatus
    \/ \E id \in Ids : hasDocumentCall(id)
    \/ Reopen
    \/ \E type \in { "word", "char" }, n \in 1..MaxSegments : DamageSegment(SegmentName(type, n))

SpecDamage == Init /\ [][NextDamage]_vars

(***************************************************************************)
(* addDocuments calls that overlap.  A call runs up to its next call of    *)
(* the blob store, which takes effect when it is made (MockStorage), and   *)
(* resumes after it in a later step; between the two the other call may    *)
(* run.  The operators below give the store and engine e and the caller's  *)
(* record c after one such stretch; c.pc names the statement to resume at. *)
(***************************************************************************)
\* MetaManager.save from the write that c.pc names
saveFrom(e, c) ==
    IF c.pc = "saveMeta"
    THEN [e |-> [e EXCEPT !.metaFile = Some(e.meta)], c |-> [c EXCEPT !.pc = "saveDeleted"]]
    ELSE IF c.pc = "saveDeleted"
    THEN [e |-> [e EXCEPT !.deletedFile = IF e.deletedIds = { } THEN NoFile
                                          ELSE Some(IdBlob(e.deletedIds))],
          c |-> [c EXCEPT !.pc = "saveAdded"]]
    ELSE IF c.pc = "saveAdded"
    THEN [e |-> [e EXCEPT !.addedFile = IF e.addedIds = { } THEN NoFile
                                        ELSE Some(IdBlob(e.addedIds))],
          c |-> [c EXCEPT !.pc = "return"]]
    ELSE [e |-> e, c |-> [c EXCEPT !.pc = "done", !.locals = NotCalled.locals]]

\* `if (added...Tokens > 0) await this.#processSegmentLogic(type, ...)` up to
\* getCurrentSize, for the type given and then for the next; save after "char"
RECURSIVE processFrom(_, _, _)
processFrom(e, c, type) ==
    IF type = "save" THEN saveFrom(e, [c EXCEPT !.pc = "saveMeta"])
    ELSE IF tokenTotal(batchDocs(c.docs, type)) > 0
    THEN [e |-> e,
          c |-> [c EXCEPT !.pc = type,
                          !.locals = [NotCalled.locals EXCEPT
                                          !.currentCacheSize = getFileSize(cacheOf(e, type))]]]
    ELSE processFrom(e, c, IF type = "word" THEN "char" ELSE "save")

\* #processSegmentLogic(type, addedTokenCount) after getCurrentSize: from the
\* read of the tail to readRange (stage "decide"), from there to the write
\* of buildAndSave (stage "build"), and from there to the end (stage "update")
segmentFrom(e, c, type, stage) ==
    LET addedTokenCount == tokenTotal(batchDocs(c.docs, type))
        currentCacheSize == c.locals.currentCacheSize
        threshold == segThreshold(e.cfg, type)
        lastSegInfo == getLastSegmentInfo(e.meta, type)
        generateSegmentName == SegmentName(type, Len(getSegments(e.meta, type)) + 1)
        existingTokenCount == Get(lastSegInfo).tokenCount
        isNew ==
            \/ lastSegInfo = Null
            \/ existingTokenCount >= threshold
            \/ existingTokenCount + addedTokenCount >= threshold
        targetSegmentName == IF isNew THEN generateSegmentName ELSE Get(lastSegInfo).filename
        startOffset ==
            IF lastSegInfo = Null THEN 0
            ELSE IF isNew THEN Get(lastSegInfo).end
            ELSE Get(lastSegInfo).start
        newTokenCountTotal ==
            IF isNew THEN addedTokenCount ELSE existingTokenCount + addedTokenCount
        next == IF type = "word" THEN "char" ELSE "save"
        l == c.locals
    IN  IF stage = "decide"
        THEN (IF newTokenCountTotal < minSave(e.cfg, type)
              THEN processFrom([e EXCEPT !.meta = updateSegment(@, type, targetSegmentName,
                                                               startOffset, currentCacheSize,
                                                               newTokenCountTotal, isNew)],
                               c, next)
              ELSE [e |-> e,
                    c |-> [c EXCEPT !.pc = type \o "Build",
                                    !.locals = [currentCacheSize |-> currentCacheSize,
                                                targetSegmentName |-> targetSegmentName,
                                                startOffset |-> startOffset,
                                                isNew |-> isNew,
                                                newTokenCountTotal |-> newTokenCountTotal,
                                                docsToBuild |-> readRange(cacheOf(e, type),
                                                                          startOffset,
                                                                          currentCacheSize)]]])
        ELSE IF stage = "build"
        THEN [e |-> [e EXCEPT !.segments =
                                  IF l.targetSegmentName \in DOMAIN @ THEN @
                                  ELSE setSegment(@, l.targetSegmentName, Null),
                              !.segFiles = writeFile(@, l.targetSegmentName,
                                                     buildAndSave(l.docsToBuild))],
              c |-> [c EXCEPT !.pc = type \o "Update"]]
        ELSE processFrom([e EXCEPT !.segments = setSegment(@, l.targetSegmentName,
                                                           Some(buildAndSave(l.docsToBuild))),
                                   !.meta = updateSegment(@, type, l.targetSegmentName,
                                                          l.startOffset, l.currentCacheSize,
                                                          l.newTokenCountTotal, l.isNew)],
                         c, next)

\* addDocuments from step 2: the appends, then addAddedId and the branch on
\* batch mode
RECURSIVE addFrom(_, _, _)
addFrom(e, c, at) ==
    LET batchWordDocs == batchDocs(c.docs, "word")
        batchCharDocs == batchDocs(c.docs, "char")
    IN  IF at = "wordAppend"
        THEN (IF Len(batchWordDocs) > 0
              THEN [e |-> [e EXCEPT !.wordCache = appendBatch(@, batchWordDocs)],
                    c |-> [c EXCEPT !.pc = "charAppend"]]
              ELSE addFrom(e, c, "charAppend"))
        ELSE IF at = "charAppend"
        THEN (IF Len(batchCharDocs) > 0
              THEN [e |-> [e EXCEPT !.charCache = appendBatch(@, batchCharDocs)],
                    c |-> [c EXCEPT !.pc = "addAddedId"]]
              ELSE addFrom(e, c, "addAddedId"))
        ELSE LET e1 == [e EXCEPT !.addedIds = @ \cup Range(IdsOf(c.docs))]
             IN  IF e1.inBatch
                 THEN [e |-> [e1 EXCEPT !.pending =
                                  [word |-> @.word + tokenTotal(batchWordDocs),
                                   char |-> @.char + tokenTotal(batchCharDocs)]],
                       c |-> [c EXCEPT !.pc = "done"]]
                 ELSE processFrom(e1, c, "word")

\* addDocuments(docs) on an initialized engine, up to its first call of the
\* blob store
addDocumentsStart(e, docs) ==
    LET c == [NotCalled EXCEPT !.docs = docs]
    IN  IF Len(docs) = 0 THEN [e |-> e, c |-> [c EXCEPT !.pc = "done"]]
        ELSE IF firstConflict(e, docs, 1) # 0 THEN [e |-> e, c |-> [c EXCEPT !.pc = "thrown"]]
        ELSE addFrom(e, c, "wordAppend")

\* the call of c resumed after the call of the blob store it was waiting for
addDocumentsResume(e, c) ==
    IF c.pc \in { "charAppend", "addAddedId" } THEN addFrom(e, c, c.pc)
    ELSE IF c.pc \in { "word", "char" } THEN segmentFrom(e, c, c.pc, "decide")
    ELSE IF c.pc \in { "wordBuild", "charBuild" }
    THEN segmentFrom(e, c, IF c.pc = "wordBuild" THEN "word" ELSE "char", "build")
    ELSE IF c.pc \in { "wordUpdate", "charUpdate" }
    THEN segmentFrom(e, c, IF c.pc = "wordUpdate" THEN "word" ELSE "char", "update")
    ELSE saveFrom(e, c)

\* caller p calls addDocuments(docs) and does not await it; caller 2 calls
\* after caller 1 has called, with other ids
StartAdd(p, docs) ==
    /\ initialized
    /\ inFlight[p].pc = "idle"
    /\ p = 2 => inFlight[1].pc # "idle"
    /\ \A q \in Callers \ {p} : Range(IdsOf(docs)) \cap Range(IdsOf(inFlight[q].docs)) = { }
    /\ LET r == addDocumentsStart(Cur, docs)
       IN  /\ Assigns(r.e)
           /\ inFlight' = [inFlight EXCEPT ![p] = r.c]
    /\ TrackBatch({ })
    /\ UNCHANGED << call, result >>

ResumeAdd(p) ==
    /\ inFlight[p].pc \notin { "idle", "done", "thrown" }
    /\ LET r == addDocumentsResume(Cur, inFlight[p])
       IN  /\ Assigns(r.e)
           /\ inFlight' = [inFlight EXCEPT ![p] = r.c]
    /\ TrackBatch({ })
    /\ UNCHANGED << call, result >>

\* an engine that a first call has initialized, then the two adds
NextOverlap ==
    \/ (\A p \in Callers : inFlight[p].pc = "idle") /\ getStatus
    \/ \E p \in Callers : \E docs \in [1..1 -> Docs] : StartAdd(p, docs)
    \/ \E p \in Callers : ResumeAdd(p)

SpecOverlap == Init /\ [][NextOverlap]_vars

(***************************************************************************)
(* Functions of the program called on their own.  The specification below  *)
(* draws a call and its arguments, and its actions apply the function; the *)
(* store and the engine are not involved and stay as constructed.          *)
(***************************************************************************)
\* the values an optional threshold or min-save option is given; Null is an
\* omitted option
ThresholdOptions == { Null } \cup { Some(v) : v \in {0, 2, 3} }

MinSaveOptions ==
    { Null } \cup { Some(v) : v \in {0, 2, 3, DefaultWordThreshold, DefaultCharThreshold} }

ConfigOptions ==
    [wordSegmentTokenThreshold : ThresholdOptions, charSegmentTokenThreshold : ThresholdOptions,
     minWordTokenSave : MinSaveOptions, minCharTokenSave : MinSaveOptions]

\* the option `given` spread over its default
Spread(given, default) == IF given = Null THEN default ELSE Get(given)

\* `value || default`
OrDefault(value, default) == IF value # 0 THEN value ELSE default

\* the constructor with a validation that lets a min-save equal its threshold
constructorOpAllowsEqual(config) ==
    LET merged ==
            [wordSegmentTokenThreshold |->
                 Spread(config.wordSegmentTokenThreshold, DefaultWordThreshold),
             charSegmentTokenThreshold |->
                 Spread(config.charSegmentTokenThreshold, DefaultCharThreshold),
             minWordTokenSave |-> Spread(config.minWordTokenSave, 0),
             minCharTokenSave |-> Spread(config.minCharTokenSave, 0)]
    IN  IF OrDefault(merged.minWordTokenSave, 0)
               > OrDefault(merged.wordSegmentTokenThreshold, DefaultWordThreshold)
        THEN [ok |-> FALSE, err |-> "minWordTokenSave", config |-> merged]
        ELSE IF OrDefault(merged.minCharTokenSave, 0)
                    > OrDefault(merged.charSegmentTokenThreshold, DefaultCharThreshold)
        THEN [ok |-> FALSE, err |-> "minCharTokenSave", config |-> merged]
        ELSE [ok |-> TRUE, err |-> "none", config |-> merged]

\* new SearchEngine(config): the configuration kept, or the error thrown
constructorOp(config) ==
    LET merged ==
            [wordSegmentTokenThreshold |->
                 Spread(config.wordSegmentTokenThreshold, DefaultWordThreshold),
             charSegmentTokenThreshold |->
                 Spread(config.charSegmentTokenThreshold, DefaultCharThreshold),
             minWordTokenSave |-> Spread(config.minWordTokenSave, 0),
             minCharTokenSave |-> Spread(config.minCharTokenSave, 0)]
    IN  IF OrDefault(merged.minWordTokenSave, 0)
               >= OrDefault(merged.wordSegmentTokenThreshold, DefaultWordThreshold)
        THEN [ok |-> FALSE, err |-> "minWordTokenSave", config |-> merged]
        ELSE IF OrDefault(merged.minCharTokenSave, 0)
                    >= OrDefault(merged.charSegmentTokenThreshold, DefaultCharThreshold)
        THEN [ok |-> FALSE, err |-> "minCharTokenSave", config |-> merged]
        ELSE [ok |-> TRUE, err |-> "none", config |-> merged]

\* the tokens of the segments built on their own: three that collide under
\* Hash and two chars
SegmentTokens == { <<97, 98>>, <<98, 97>>, <<96, 99>>, <<97>>, <<99>> }

TokenLists == UNION { [1..n -> SegmentTokens] : n \in 1..2 }

TokenizedDocs == [id : Ids, tokens : TokenLists]

\* the arrays of tokenized documents with distinct ids that a segment is built from
SegmentDocs ==
    { docs \in UNION { [1..n -> TokenizedDocs] : n \in 0..MaxDocs } :
        \A i, j \in 1..Len(docs) : docs[i].id = docs[j].id => i = j }

\* the tokens of the logs written on their own: a char, a word, a code unit
\* of two bytes and the empty token
ShortTokens == { <<97>>, <<97, 98>>, <<233>>, << >> }

\* A token as the call and its result hold it: the number of code units 97
\* it starts with, and the code units after them.
Unpack(packed) == [i \in 1..packed.pad |-> 97] \o packed.text

PackMixed(tok) ==
    LET n == CHOOSE i \in 1..Len(tok) : tok[i] # 97 /\ \A j \in 1..(i - 1) : tok[j] = 97
    IN  [pad |-> n - 1, text |-> SubSeq(tok, n, Len(tok))]

Pack(tok) ==
    IF SelectSeq(tok, LAMBDA c : c # 97) = << >> THEN [pad |-> Len(tok), text |-> << >>]
    ELSE CHOOSE packed \in { PackMixed(t) : t \in { tok } } : TRUE

PackDocs(docs) ==
    [i \in 1..Len(docs) |->
        [id |-> docs[i].id,
         tokens |-> [j \in 1..Len(docs[i].tokens) |-> Pack(docs[i].tokens[j])]]]

UnpackDocs(docs) ==
    [i \in 1..Len(docs) |->
        [id |-> docs[i].id,
         tokens |-> [j \in 1..Len(docs[i].tokens) |-> Unpack(docs[i].tokens[j])]]]

ShortTokenLists ==
    { << >>, << Pack(<<97>>), Pack(<<97, 98>>) >> } \cup [1..1 -> { Pack(t) : t \in ShortTokens }]

\* a token one byte longer than the length field of a record can tell, and
\* one whose last code unit straddles that length
LongToken == [pad |-> MaxTokenBytes + 1, text |-> << >>]

LongTokenSplit == [pad |-> MaxTokenBytes - 1, text |-> << 233 >>]

LogDocs == [id : Ids, tokens : ShortTokenLists]

\* the arguments of one appendBatch call
LogBatches == UNION { [1..n -> LogDocs] : n \in 0..MaxDocs }

\* the appendBatch calls made on one log, in order
MaxAppends == 2

\* the sequences of appendBatch calls: those of short tokens, and two that
\* append a long token behind a short one
LogCalls ==
    [1..MaxAppends -> LogBatches]
    \cup { << << [id |-> 2, tokens |-> << Pack(<<97, 98>>) >>] >>,
              << [id |-> 1, tokens |-> << long >>] >> >> : long \in { LongToken, LongTokenSplit } }

\* one appendBatch call on an absent log and the end of a readRange from 0:
\* every offset up to the size of the log, those inside a record included;
\* the batches are those of short tokens and one of a token of nine bytes
CutCalls ==
    { [fn |-> "cut", docs |-> d, end |-> n] :
        d \in LogBatches \cup { << [id |-> 1, tokens |-> << [pad |-> 9, text |-> << >>] >>] >> },
        n \in 0..(2 * 16) }

PureCalls ==
    { [fn |-> "constructor", config |-> c] : c \in ConfigOptions }
    \cup { [fn |-> "segment", docs |-> d, term |-> t] : d \in SegmentDocs, t \in SegmentTokens }
    \cup { [fn |-> "log", batches |-> b] : b \in LogCalls }
    \cup { c \in CutCalls : c.end <= getFileSize(appendBatch(NoFile, UnpackDocs(c.docs))) }

InitPure ==
    /\ wordCache = NoFile
    /\ charCache = NoFile
    /\ segFiles = << >>
    /\ metaFile = NoFile
    /\ deletedFile = NoFile
    /\ addedFile = NoFile
    /\ cfg = [wordSegmentTokenThreshold |-> DefaultWordThreshold,
              charSegmentTokenThreshold |-> DefaultCharThreshold,
              minWordTokenSave |-> 0, minCharTokenSave |-> 0]
    /\ initialized = FALSE
    /\ inBatch = FALSE
    /\ pending = [word |-> 0, char |-> 0]
    /\ meta = EmptyMeta
    /\ deletedIds = { }
    /\ addedIds = { }
    /\ segments = << >>
    /\ batchAdded = { }
    /\ call \in { Some(c) : c \in PureCalls }
    /\ result = Null
    /\ inFlight = [p \in Callers |-> NotCalled]

Returns(value) ==
    /\ result = Null
    /\ result' = Some(value)
    /\ UNCHANGED << storeVars, engineVars, batchAdded, call, inFlight >>

Construct ==
    /\ Get(call).fn = "constructor"
    /\ Returns(constructorOp(Get(call).config))

\* segment.buildAndSave(docs) followed by segment.search(term)
BuildAndSearch ==
    /\ Get(call).fn = "segment"
    /\ Returns(segmentSearch(Some(buildAndSave(Get(call).docs)), Get(call).term))

\* the log after the first n of the appendBatch calls
RECURSIVE logAfter(_, _)
logAfter(batches, n) ==
    IF n = 0 THEN NoFile ELSE appendBatch(logAfter(batches, n - 1), batches[n])

\* the appendBatch calls in order on an absent log, the size each returns,
\* and then readRange between every two of the sizes seen
AppendAndRead ==
    /\ Get(call).fn = "log"
    /\ LET batches == [n \in 1..Len(Get(call).batches) |-> UnpackDocs(Get(call).batches[n])]
       IN  \E logs \in { [n \in 0..Len(batches) |-> logAfter(batches, n)] } :
           \E sizes \in { [n \in 0..Len(batches) |-> getFileSize(logs[n])] } :
               Returns([sizes |-> sizes,
                        reads |-> [a \in 0..Len(batches) |->
                                     [b \in a..Len(batches) |->
                                        PackDocs(readRange(logs[Len(batches)],
                                                           sizes[a], sizes[b]))]]])

\* appendBatch(docs) on an absent log followed by readRange(0, end)
CutRead ==
    /\ Get(call).fn = "cut"
    /\ Returns(PackDocs(readRange(appendBatch(NoFile, UnpackDocs(Get(call).docs)),
                                  0, Get(call).end)))

NextPure ==
    \/ Construct
    \/ BuildAndSearch
    \/ AppendAndRead
    \/ CutRead

SpecPure == InitPure /\ [][NextPure]_vars

(***************************************************************************)
(* Vocabulary of the properties.                                           *)
(***************************************************************************)
ResultIds(results) == { results[i].id : i \in 1..Len(results) }

\* the non-empty tokens the indexing tokenizer gives for a document
TokensOf(doc) == { t \in Range(indexingTokenizer(doc)) : Len(t) > 0 }

\* what search(<<tok>>) finds in the engine e
Finds(e, tok) == ResultIds(searchOp(e, << tok >>, -1).value)

\* the search of e with the deletion filter taken away: the ids the
\* segments hold for the query
UnfilteredIds(e, query) ==
    ResultIds(searchOp([init(e) EXCEPT !.deletedIds = { }], query, -1).value)

(***************************************************************************)
(* C1.  Once removeDocument(x) has completed, and as long as clearAll is   *)
(* not called, x is in deletedIds, x is not in addedIds, hasDocument(x)    *)
(* is true and no search returns x.                                        *)
(***************************************************************************)
C1_Hidden ==
    \A x \in deletedIds :
        /\ x \notin addedIds
        /\ hasDocumentOp(Cur, x).value
        /\ \A query \in Queries, limit \in Limits :
               x \notin ResultIds(searchOp(Cur, query, limit).value)

C1_Stays ==
    \A x \in Ids :
        ((x \in deletedIds \/ removeDocument(x)) /\ ~clearAll) => x \in deletedIds'

C1_RemovedStaysRemoved == []C1_Hidden /\ [][C1_Stays]_vars

\* a removed id whose postings are still in a segment a query reaches
C1_Witness ==
    /\ initialized
    /\ \E x \in deletedIds : \E query \in Queries : x \in UnfilteredIds(Cur, query)

(***************************************************************************)
(* C2.  A strict add fails when one of its ids is added ("already exists") *)
(* or deleted ("has been deleted and cannot be re-added"), and so no id is *)
(* ever accepted twice by strict adds: an add that succeeds takes in each  *)
(* id once, and none that was taken in before.                             *)
(***************************************************************************)
C2_StrictAddOnce ==
    \A docs \in DocArrays :
        LET pre == init(Cur)
            r == addDocumentsOp(Cur, docs)
            ids == Range(IdsOf(docs))
        IN  /\ (ids \cap (pre.addedIds \cup pre.deletedIds) # { }) => ~r.ok
            /\ (~r.ok /\ ids \cap pre.deletedIds = { }) => r.err = "exists"
            /\ (~r.ok /\ ids \cap pre.addedIds = { }) => r.err = "deleted"
            /\ r.ok =>
                  /\ ids \cap (pre.addedIds \cup pre.deletedIds) = { }
                  /\ \A i, j \in 1..Len(r.accepted) :
                         r.accepted[i].id = r.accepted[j].id => i = j

\* the part of C2 the code keeps: a conflict with the id sets fails the call
C2_ConflictFails ==
    \A docs \in DocArrays :
        LET pre == init(Cur)
            r == addDocumentsOp(Cur, docs)
            ids == Range(IdsOf(docs))
        IN  /\ (ids \cap (pre.addedIds \cup pre.deletedIds) # { }) <=> ~r.ok
            /\ (~r.ok /\ ids \cap pre.deletedIds = { }) => r.err = "exists"
            /\ (~r.ok /\ ids \cap pre.addedIds = { }) => r.err = "deleted"

(***************************************************************************)
(* C3.  A lenient add never fails on an id conflict.  A document whose id  *)
(* is added or deleted is skipped with no effect: it leaves no log record  *)
(* (and segments are built from log records only), and the id sets change  *)
(* by the ids of the other documents alone.  Every other document of the   *)
(* call is added.  C3_LenientAdd is the claim as stated: each of these     *)
(* documents is searchable, by each of its tokens, when the call returns.  *)
(* C3_LenientAddImmediate keeps that for the calls made outside batch mode *)
(* and the tokens of a type whose min-save threshold is 0.                 *)
(***************************************************************************)
LogRecords(file) == readRange(file, 0, getFileSize(file))

TypeOf(tok) == IF Len(tok) > 1 THEN "word" ELSE "char"

\* the documents of the call the id sets do not hold
C3_Kept(e, docs) ==
    SelectSeq(docs, LAMBDA d : d.id \notin (e.addedIds \cup e.deletedIds))

C3_Effect(pre, r, kept) ==
    /\ r.ok
    /\ r.e.deletedIds = pre.deletedIds
    /\ r.e.addedIds = pre.addedIds \cup Range(IdsOf(kept))
    /\ LogRecords(r.e.wordCache) = LogRecords(pre.wordCache) \o batchDocs(kept, "word")
    /\ LogRecords(r.e.charCache) = LogRecords(pre.charCache) \o batchDocs(kept, "char")
    /\ kept = << >> => r.e = pre

C4_Inv ==
    /\ addedIds \cap deletedIds = { }
    /\ \A docs \in DocArrays :
           LET strict == addDocumentsOp(Cur, docs)
               lenient == addDocumentsIfMissingOp(Cur, docs)
           IN  /\ strict.ok =>
                     Range(IdsOf(docs)) \subseteq strict.e.addedIds \cup strict.e.deletedIds
               /\ lenient.ok =>
                     Range(IdsOf(docs)) \subseteq lenient.e.addedIds \cup lenient.e.deletedIds

C4_Keeps ==
    \A id \in Ids :
        /\ id \in deletedIds => id \in deletedIds'
        /\ id \in addedIds => id \in addedIds' \cup deletedIds'

C4_IdSets == []C4_Inv /\ [][C4_Keeps]_vars

C4_IdSetsUntilClear == []C4_Inv /\ [][~clearAll => C4_Keeps]_vars

\* an id that was added and then removed, next to one that is still added
C4_Witness ==
    /\ addedIds # { }
    /\ \E x \in deletedIds :
           \E i \in 1..Len(LogRecords(wordCache)) : LogRecords(wordCache)[i].id = x

(***************************************************************************)
(* The postings a segment file holds for one exact token, read from the    *)
(* file itself and not through IndexSegment.search.                        *)
(***************************************************************************)
PostingsOf(buffer, term) ==
    IF buffer = Null THEN { }
    ELSE UNION { Range(Get(buffer).entries[i].postings) :
                   i \in { k \in 1..Get(buffer).count :
                             Utf8Decode(Get(buffer).entries[k].tokenBytes) = term } }

\* the catalogued segments of the term's type whose postings of the term hold id
SegmentsHolding(e, id, term) ==
    IF Len(term) = 0 THEN { }
    ELSE LET metas == getSegments(e.meta, TypeOf(term))
         IN  { j \in 1..Len(metas) :
                 /\ metas[j].filename \in DOMAIN e.segments
                 /\ id \in PostingsOf(e.segments[metas[j].filename], term) }

(***************************************************************************)
(* C5.  The score of a returned id is the sum, over the pairs of a query   *)
(* term and a catalogued segment of the term's type whose postings of the  *)
(* term contain the id, of 1 + 0.1 * (term length), kept here in tenths:   *)
(* an id hit by one term in one segment has score 10 + Len(term).          *)
(***************************************************************************)
C5_ExpectedScore(e, id, terms) ==
    SumSeq([i \in 1..Len(terms) |->
               Cardinality(SegmentsHolding(e, id, terms[i])) * termScoreOf(terms[i])])

C5_ScoreIsSumOfHits ==
    \A query \in Queries, limit \in Limits :
        LET r == searchOp(Cur, query, limit)
        IN  \A i \in 1..Len(r.value) :
                r.value[i].score =
                    C5_ExpectedScore(r.e, r.value[i].id, searchTokenizer(query))

(***************************************************************************)
(* C6.  search returns its matches in non-increasing score order; with a   *)
(* limit > 0 it returns the first min(limit, number of matches) entries of *)
(* that order, and with limit 0 or no limit it returns all the matches,    *)
(* each once.  A match is an id, not deleted, that IndexSegment.search     *)
(* returns for a term of the query in a catalogued segment of its type.    *)
(***************************************************************************)
C6_Matches(e, query) ==
    { id \in Ids \ e.deletedIds :
        \E t \in { u \in Range(searchTokenizer(query)) : Len(u) > 0 } :
            LET metas == getSegments(e.meta, TypeOf(t))
            IN  \E j \in 1..Len(metas) :
                    /\ metas[j].filename \in DOMAIN e.segments
                    /\ id \in Range(segmentSearch(e.segments[metas[j].filename], t)) }

C6_SortedAndLimited ==
    \A query \in Queries, limit \in Limits :
        LET r == searchOp(Cur, query, limit)
            all == searchOp(Cur, query, -1).value
            n == Cardinality(C6_Matches(r.e, query))
        IN  /\ \A i, j \in 1..Len(r.value) : i < j => r.value[i].score >= r.value[j].score
            /\ Len(all) = n
            /\ ResultIds(all) = C6_Matches(r.e, query)
            /\ limit > 0 => r.value = SubSeq(all, 1, Min(limit, n))
            /\ limit <= 0 => r.value = all

\* two matches that the sort has to swap, and a limit that cuts one off
C6_Witness ==
    \E query \in Queries :
        LET found == docMatchesOf(Cur, query)
        IN  /\ Len(found) = 2
            /\ found[1].score < found[2].score
            /\ searchOp(Cur, query, 1).value = << found[2] >>

(***************************************************************************)
(* C7.  The tokens field of a search result is exactly the set of query    *)
(* terms whose postings, in some catalogued segment of the term's type,    *)
(* contain the result's id: no term is missing and none is extra.          *)
(***************************************************************************)
C7_TokensAreHitTerms ==
    \A query \in Queries, limit \in Limits :
        LET r == searchOp(Cur, query, limit)
        IN  \A i \in 1..Len(r.value) :
                Range(r.value[i].tokens) =
                    { t \in Range(searchTokenizer(query)) :
                        SegmentsHolding(r.e, r.value[i].id, t) # { } }

(***************************************************************************)
(* C8.  With the min-save thresholds at 0: after any sequence of           *)
(* startBatch and add calls, an endBatch that completes leaves every       *)
(* document added since the batch was first started, and not deleted,      *)
(* returned by search for each of its tokens.  batchAdded holds these      *)
(* documents; the property looks at the engine endBatch would leave.       *)
(***************************************************************************)
C8_BatchFlushed ==
    (inBatch /\ minSave(cfg, "word") = 0 /\ minSave(cfg, "char") = 0) =>
        LET e1 == endBatchOp(Cur)
        IN  \A d \in batchAdded :
                d.id \notin e1.deletedIds =>
                    \A tok \in TokensOf(d) : d.id \in Finds(e1, tok)

(***************************************************************************)
(* C9.  In batch mode addDocuments and addDocumentsIfMissing only append   *)
(* the records of the documents they take in to the logs, add their ids to *)
(* the in-memory addedIds and raise the pending token counts: no segment   *)
(* file is created or overwritten, no catalog descriptor changes, and the  *)
(* metadata blob and the two id-set blobs are not written.                 *)
(***************************************************************************)
C9_BatchAddEffect(pre, r) ==
    /\ r.e.segFiles = segFiles
    /\ r.e.metaFile = metaFile
    /\ r.e.deletedFile = deletedFile
    /\ r.e.addedFile = addedFile
    /\ r.e.meta = pre.meta
    /\ r.e.segments = pre.segments
    /\ r.e.deletedIds = pre.deletedIds
    /\ r.e.inBatch
    /\ LogRecords(r.e.wordCache) = LogRecords(wordCache) \o batchDocs(r.accepted, "word")
    /\ LogRecords(r.e.charCache) = LogRecords(charCache) \o batchDocs(r.accepted, "char")
    /\ r.e.addedIds = pre.addedIds \cup Range(IdsOf(r.accepted))
    /\ r.e.pending.word = pre.pending.word + tokenTotal(batchDocs(r.accepted, "word"))
    /\ r.e.pending.char = pre.pending.char + tokenTotal(batchDocs(r.accepted, "char"))

C9_BatchAddsOnlyLog ==
    inBatch =>
        \A docs \in DocArrays :
            /\ C9_BatchAddEffect(init(Cur), addDocumentsOp(Cur, docs))
            /\ C9_BatchAddEffect(init(Cur), addDocumentsIfMissingOp(Cur, docs))

\* in batch mode, over a catalog that has a word segment, an add has logged
\* word tokens that are still pending
C9_Witness ==
    /\ inBatch
    /\ pending.word > 0
    /\ batchAdded # { }
    /\ meta.wordSegments # << >>
    /\ Len(LogRecords(wordCache)) > Len(readRange(wordCache, 0,
                                        meta.wordSegments[Len(meta.wordSegments)].end))

(***************************************************************************)
(* C10.  The batch flag, which getStatus reports as inBatch, is true       *)
(* exactly from a startBatch until the next endBatch or clearAll: these    *)
(* three calls set it and every other call keeps it.  startBatch leaves    *)
(* the flag true and the pending counts at zero, also when the engine is   *)
(* already in batch mode, and after endBatch the pending counts are zero.  *)
(***************************************************************************)
NoPending == [word |-> 0, char |-> 0]

\* the calls that are neither startBatch, endBatch nor clearAll
C10_OtherCalls ==
    { addDocumentsOp(Cur, docs).e : docs \in DocArrays }
        \cup { addDocumentsIfMissingOp(Cur, docs).e : docs \in DocArrays }
        \cup { removeDocumentOp(Cur, id) : id \in Ids }
        \cup { hasDocumentOp(Cur, id).e : id \in Ids }
        \cup { searchOp(Cur, query, limit).e : query \in Queries, limit \in Limits }
        \cup { getStatusOp(Cur).e }

C10_BatchFlag ==
    /\ getStatusOp(Cur).value.inBatch = inBatch
    /\ startBatchOp(Cur).inBatch
    /\ startBatchOp(Cur).pending = NoPending
    /\ ~endBatchOp(Cur).inBatch
    /\ endBatchOp(Cur).pending = NoPending
    /\ ~clearAllOp(Cur).inBatch
    /\ \A e \in C10_OtherCalls : e.inBatch = inBatch

\* startBatch has been called again in batch mode, after an add had raised
\* the pending counts
C10_Witness ==
    /\ inBatch
    /\ pending = NoPending
    /\ \E d \in batchAdded : TokensOf(d) # { }

(***************************************************************************)
(* Vocabulary of the catalog properties.                                   *)
(***************************************************************************)
Types == { "word", "char" }

\* the catalogs of e: the one in memory and, when the metadata blob
\* exists, the persisted one
CatalogsOf(e) == { e.meta } \cup e.metaFile

\* the tokens of the log records that lie in the byte range [start, end)
TokensInRange(file, start, end) == tokenTotal(readRange(file, start, end))

(***************************************************************************)
(* C11.  For each index type the catalog is contiguous over the log: the   *)
(* first descriptor starts at 0, every other descriptor starts where its   *)
(* predecessor ends, and no descriptor ends beyond the current size of the *)
(* type's log.                                                             *)
(***************************************************************************)
C11_Contiguous(segs, logSize) ==
    /\ Len(segs) > 0 => segs[1].start = 0
    /\ \A i \in 2..Len(segs) : segs[i].start = segs[i - 1].end
    /\ \A i \in 1..Len(segs) : segs[i].end <= logSize

C11_CatalogContiguous ==
    \A type \in Types : \A m \in CatalogsOf(Cur) :
        C11_Contiguous(getSegments(m, type), getFileSize(cacheOf(Cur, type)))

\* a catalog whose second descriptor starts where the first one ends
C11_Witness ==
    \E type \in Types :
        LET segs == getSegments(meta, type)
        IN  /\ Len(segs) >= 2
            /\ segs[2].start > 0
            /\ segs[2].end = getFileSize(cacheOf(Cur, type))

(***************************************************************************)
(* C12.  Every catalog descriptor's tokenCount is the sum of tokens.length *)
(* over the log records that lie in its byte range [start, end), after any *)
(* sequence of operations, repeated startBatch calls included.             *)
(***************************************************************************)
C12_TokenCountIsRangeSum ==
    \A type \in Types : \A m \in CatalogsOf(Cur) :
        LET segs == getSegments(m, type)
        IN  \A i \in 1..Len(segs) :
                segs[i].tokenCount =
                    TokensInRange(cacheOf(Cur, type), segs[i].start, segs[i].end)

(***************************************************************************)
(* C13.  For each index type and every catalog descriptor, the segment     *)
(* file the descriptor names exists in the store if and only if the        *)
(* descriptor's tokenCount is at least the min-save threshold of the type; *)
(* below it only the descriptor exists.                                    *)
(***************************************************************************)
C13_FileIffMinSave ==
    \A type \in Types : \A m \in CatalogsOf(Cur) :
        LET segs == getSegments(m, type)
        IN  \A i \in 1..Len(segs) :
                (segs[i].filename \in DOMAIN segFiles)
                    <=> (segs[i].tokenCount >= minSave(cfg, type))

(***************************************************************************)
(* C14.  Segment processing of d > 0 new tokens on a type whose tail has   *)
(* tokenCount c, with threshold T.  If c >= T or c + d >= T a descriptor   *)
(* is appended with start = the old tail's end and tokenCount = d, and the *)
(* old tail is left as it was.  Otherwise the catalog keeps its length and *)
(* the tail keeps its start and gets tokenCount = c + d, which is below T. *)
(***************************************************************************)
\* the token counts an add of the model can bring to a type
AddedCounts(type) == { tokenTotal(batchDocs(docs, type)) : docs \in DocArrays } \ { 0 }

C14_RolloverRule ==
    \A type \in Types : \A d \in AddedCounts(type) :
        LET segs == getSegments(meta, type)
            n == Len(segs)
            after == getSegments(processSegmentLogic(Cur, type, d).meta, type)
            T == IF type = "word" THEN cfg.wordSegmentTokenThreshold
                 ELSE cfg.charSegmentTokenThreshold
        IN  n > 0 =>
                LET c == segs[n].tokenCount
                IN  IF c >= T \/ c + d >= T
                    THEN /\ Len(after) = n + 1
                         /\ SubSeq(after, 1, n) = segs
                         /\ after[n + 1].start = segs[n].end
                         /\ after[n + 1].tokenCount = d
                    ELSE /\ Len(after) = n
                         /\ SubSeq(after, 1, n - 1) = SubSeq(segs, 1, n - 1)
                         /\ after[n].filename = segs[n].filename
                         /\ after[n].start = segs[n].start
                         /\ after[n].tokenCount = c + d
                         /\ c + d < T

\* a tail below its threshold for which both cases of the rule arise: some
\* token counts extend it, others open a new segment behind it
C14_Witness ==
    \E type \in Types :
        LET segs == getSegments(meta, type)
            n == Len(segs)
            T == segThreshold(cfg, type)
        IN  /\ n > 0
            /\ \E d \in AddedCounts(type) :
                   /\ segs[n].tokenCount + d < T
                   /\ Len(getSegments(processSegmentLogic(Cur, type, d).meta, type)) = n
            /\ \E d \in AddedCounts(type) :
                   /\ segs[n].tokenCount + d >= T
                   /\ Len(getSegments(processSegmentLogic(Cur, type, d).meta, type)) = n + 1

(***************************************************************************)
(* C15.  Reload equivalence: whenever the engine is outside batch mode, a  *)
(* second engine constructed with the same configuration over the same     *)
(* storage returns, for every query, the same set of ids with the same     *)
(* scores as the first engine.                                             *)
(***************************************************************************)
\* the ids a search returns, each with its score
Scored(results) == { << results[i].id, results[i].score >> : i \in 1..Len(results) }

C15_ReloadEquivalence ==
    ~inBatch =>
        \A query \in Queries :
            Scored(searchOp(reopenOp(Cur), query, -1).value)
                = Scored(searchOp(Cur, query, -1).value)

\* outside batch mode, an engine that has loaded its catalog finds a document
\* for some query while its segments hold a removed document for it as well
C15_Witness ==
    /\ ~inBatch
    /\ initialized
    /\ \E query \in Queries :
           LET found == ResultIds(searchOp(Cur, query, -1).value)
           IN  /\ found # { }
               /\ UnfilteredIds(Cur, query) \ found # { }
               /\ Scored(searchOp(reopenOp(Cur), query, -1).value) # { }

(***************************************************************************)
(* C16.  Crash recovery.  The process ends after an add has appended to    *)
(* the log and before the metadata save; an engine is constructed over the *)
(* store and the same documents are fed to addDocumentsIfMissing.  Then    *)
(* each re-fed id is in addedIds and is indexed exactly once: no posting   *)
(* list holds it twice and every query returns the ids and scores of the   *)
(* run in which the add completed; and the catalog is contiguous with      *)
(* tokenCounts equal to the token sums of the ranges.                      *)
(***************************************************************************)
DistinctIds(docs) == \A i, j \in 1..Len(docs) : docs[i].id = docs[j].id => i = j

\* some posting list of a segment file of e holds id more than once
PostedTwice(e, id) ==
    \E f \in DOMAIN e.segFiles : \E k \in 1..e.segFiles[f].count :
        LET postings == e.segFiles[f].entries[k].postings
        IN  \E i, j \in 1..Len(postings) : i # j /\ postings[i] = id /\ postings[j] = id

SameResults(a, b) ==
    \A query \in Queries :
        Scored(searchOp(a, query, -1).value) = Scored(searchOp(b, query, -1).value)

CatalogInvariants(e) ==
    \A type \in Types :
        LET segs == getSegments(e.meta, type)
        IN  /\ C11_Contiguous(segs, getFileSize(cacheOf(e, type)))
            /\ \A i \in 1..Len(segs) :
                   segs[i].tokenCount =
                       TokensInRange(cacheOf(e, type), segs[i].start, segs[i].end)

\* the store and engine when the add of docs ends with the process at `at`
\* after an append, and the next engine is constructed; Null otherwise
CrashedAdd(e, docs, at) ==
    LET f == addDocumentsFailingOp(e, docs, at)
    IN  IF f = Null THEN Null
        ELSE IF Get(f).wordCache = init(e).wordCache /\ Get(f).charCache = init(e).charCache
        THEN Null
        ELSE Some(reopenOp(Get(f)))

C16_CrashRecovery ==
    ~inBatch =>
        \A docs \in DocArrays : \A at \in CrashPoints :
            LET c == CrashedAdd(Cur, docs, at)
            IN  (DistinctIds(docs) /\ c # Null) =>
                    LET r == addDocumentsIfMissingOp(Get(c), docs).e
                        free == addDocumentsOp(Cur, docs).e
                    IN  /\ \A i \in 1..Len(docs) : docs[i].id \in r.addedIds
                        /\ \A i \in 1..Len(docs) : ~PostedTwice(r, docs[i].id)
                        /\ SameResults(r, free)
                        /\ CatalogInvariants(r)

(***************************************************************************)
(* C17.  Recovery after an error inside the process.  An addDocuments or   *)
(* addDocumentsIfMissing call fails with a storage error at a log append,  *)
(* at the segment build or at the save; the same documents are then given  *)
(* to addDocumentsIfMissing on the same engine.  After that every document *)
(* the failed call had taken is in addedIds, is found by each of its       *)
(* tokens that the call without the error makes searchable, and is in no   *)
(* posting list twice.                                                     *)
(***************************************************************************)
\* the engines in which an add of docs ends when thrown out of at `at`
FailedAdds(e, docs, at) ==
    addDocumentsFailingOp(e, docs, at) \cup addDocumentsIfMissingFailingOp(e, docs, at)

C17_Recovered(e, docs, r) ==
    LET free == addDocumentsIfMissingOp(e, docs).e
        taken == newDocsOf(init(e), docs)
    IN  \A i \in 1..Len(taken) :
            /\ taken[i].id \in r.addedIds
            /\ \A tok \in TokensOf(taken[i]) :
                   taken[i].id \in Finds(free, tok) => taken[i].id \in Finds(r, tok)
            /\ ~PostedTwice(r, taken[i].id)

C17_ResubmitRecovers ==
    ~inBatch =>
        \A docs \in DocArrays : \A at \in AddFaults :
            DistinctIds(docs) =>
                \A f \in FailedAdds(Cur, docs, at) :
                    C17_Recovered(Cur, docs, addDocumentsIfMissingOp(f, docs).e)

(***************************************************************************)
(* C18.  When the append to the word log or to the char log throws inside  *)
(* an add, the call has not changed addedIds, and the same add made again  *)
(* and completing leaves the store and the engine as the add does when no  *)
(* append throws.                                                          *)
(***************************************************************************)
AppendFaults == {"wordAppend", "charAppend"}

C18_AppendFailureRetry ==
    \A docs \in DocArrays : \A at \in AppendFaults :
        /\ \A f \in addDocumentsFailingOp(Cur, docs, at) :
               /\ f.addedIds = init(Cur).addedIds
               /\ addDocumentsOp(f, docs).e = addDocumentsOp(Cur, docs).e
        /\ \A f \in addDocumentsIfMissingFailingOp(Cur, docs, at) :
               /\ f.addedIds = init(Cur).addedIds
               /\ addDocumentsIfMissingOp(f, docs).e = addDocumentsIfMissingOp(Cur, docs).e

(***************************************************************************)
(* C19.  An endBatch that fails leaves the logs as they were and the       *)
(* catalog un-updated, and when endBatch is then called again and          *)
(* completes, the catalog (descriptors, ranges, tokenCounts) is the one a  *)
(* single endBatch that completes produces.                                *)
(***************************************************************************)
C19_FailedEndBatch ==
    inBatch =>
        \A at \in EndFaults : \A f \in endBatchFailingOp(Cur, at) :
            /\ f.wordCache = wordCache /\ f.charCache = charCache
            /\ f.meta = meta
            /\ endBatchOp(f).meta = endBatchOp(Cur).meta
            /\ endBatchOp(f).metaFile = endBatchOp(Cur).metaFile

(***************************************************************************)
(* C20.  When the store throws while a segment is built or written, the    *)
(* logs are as they were, every segment file written before is still there *)
(* with its contents, and the next segment processing of the type that     *)
(* completes indexes every log record from the start of its target segment *)
(* to the end of the log, the records that no descriptor covered at the    *)
(* failure included: the target starts no later than the end of the        *)
(* catalog, ends at the end of the log, and when its range holds at least  *)
(* the min-save number of tokens its file is the index of the records of   *)
(* the range.                                                              *)
(***************************************************************************)
\* the offset up to which the catalog of e covers the log of the type
CatalogEnd(e, type) ==
    LET segs == getSegments(e.meta, type)
    IN  IF Len(segs) = 0 THEN 0 ELSE segs[Len(segs)].end

C20_IndexesRange(f, type, after, covered) ==
    LET segs == getSegments(after.meta, type)
        tail == segs[Len(segs)]
        log == cacheOf(f, type)
        size == getFileSize(log)
    IN  /\ tail.start <= covered
        /\ tail.end = size
        /\ TokensInRange(log, tail.start, size) >= minSave(f.cfg, type) =>
               /\ tail.filename \in DOMAIN after.segFiles
               /\ after.segFiles[tail.filename] = buildAndSave(readRange(log, tail.start, size))

C20_BuildFailure ==
    \A type \in Types : \A d \in AddedCounts(type) :
        \A f \in processSegmentLogicFailing(Cur, type, d) :
            /\ f.wordCache = wordCache /\ f.charCache = charCache
            /\ f.segFiles = segFiles
            /\ \A d2 \in AddedCounts(type) :
                   C20_IndexesRange(f, type, processSegmentLogic(f, type, d2),
                                    CatalogEnd(Cur, type))

(***************************************************************************)
(* C21.  hasDocument(id) is true if and only if the id has been taken in   *)
(* by an add or has been passed to removeDocument since the last clearAll  *)
(* (or since construction).  Stated call by call on the set of ids for     *)
(* which hasDocument is true: an add enlarges it by the ids of the         *)
(* documents it takes in, removeDocument(id) by id, clearAll empties it,   *)
(* and no other call changes it.                                           *)
(***************************************************************************)
\* the ids for which hasDocument answers true
Known(e) == { id \in Ids : hasDocumentOp(e, id).value }

C21_CallsKeepKnown ==
    /\ Known(startBatchOp(Cur)) = Known(Cur)
    /\ Known(endBatchOp(Cur)) = Known(Cur)
    /\ Known(getStatusOp(Cur).e) = Known(Cur)
    /\ \A query \in Queries : Known(searchOp(Cur, query, -1).e) = Known(Cur)
    /\ \A id \in Ids : Known(hasDocumentOp(Cur, id).e) = Known(Cur)

C21_AddsEnlargeKnown ==
    \A docs \in DocArrays :
        /\ LET r == addDocumentsOp(Cur, docs)
           IN  Known(r.e) = Known(Cur) \cup Range(IdsOf(r.accepted))
        /\ LET r == addDocumentsIfMissingOp(Cur, docs)
           IN  Known(r.e) = Known(Cur) \cup Range(IdsOf(r.accepted))

Constructed == result # Null /\ Get(call).fn = "constructor"

\* the claim as written: the defaults stand for omitted options only
C22_ThrowsIffMinNotBelowThreshold ==
    Constructed =>
        LET config == Get(call).config
            wordThreshold == Spread(config.wordSegmentTokenThreshold, DefaultWordThreshold)
            charThreshold == Spread(config.charSegmentTokenThreshold, DefaultCharThreshold)
            minWord == Spread(config.minWordTokenSave, 0)
            minChar == Spread(config.minCharTokenSave, 0)
        IN  ~Get(result).ok <=> (minWord >= wordThreshold \/ minChar >= charThreshold)

C22_ThrowsIffMinNotBelowEffectiveThreshold ==
    Constructed =>
        LET config == Get(call).config
            given(option, default) ==
                IF option = Null \/ option = Some(0) THEN default ELSE Get(option)
            wordThreshold == given(config.wordSegmentTokenThreshold, DefaultWordThreshold)
            charThreshold == given(config.charSegmentTokenThreshold, DefaultCharThreshold)
            minWord == given(config.minWordTokenSave, 0)
            minChar == given(config.minCharTokenSave, 0)
        IN  ~Get(result).ok <=> (minWord >= wordThreshold \/ minChar >= charThreshold)

\* the constructor has thrown for a min-save that reaches a default threshold
C22_Witness ==
    /\ Constructed
    /\ ~Get(result).ok
    /\ Get(call).config.wordSegmentTokenThreshold = Null
    /\ Get(call).config.charSegmentTokenThreshold = Some(3)

(***************************************************************************)
(* C23.  In a segment built from documents with distinct ids, the search   *)
(* of a token that occurs in them returns the ids of exactly the documents *)
(* whose token list holds the token, each id once, also when several of    *)
(* the indexed tokens have the same hash.                                  *)
(***************************************************************************)
\* the segment call that has returned, with its result
Searched == result # Null /\ Get(call).fn = "segment"

C23_SegmentSearchExact ==
    Searched =>
        LET docs == Get(call).docs
            term == Get(call).term
            holders == { i \in 1..Len(docs) : term \in Range(docs[i].tokens) }
            postings == Get(result)
        IN  holders # { } =>
                /\ Range(postings) = { docs[i].id : i \in holders }
                /\ Len(postings) = Cardinality(holders)

\* the search of a token that one document holds twice, in a segment where
\* another document holds a token of the same hash
C23_Witness ==
    /\ Searched
    /\ Get(result) # << >>
    /\ LET docs == Get(call).docs
           term == Get(call).term
       IN  /\ Len(docs) = 2
           /\ docs[1].tokens = << term, term >>
           /\ term \notin Range(docs[2].tokens)
           /\ \E t \in Range(docs[2].tokens) : Hash(t) = Hash(term)

(***************************************************************************)
(* C24.  Log round trip.  After a sequence of appendBatch calls on one     *)
(* log, readRange between the sizes the log had after the a-th and after   *)
(* the b-th call (a <= b) returns the tokenized documents of the calls     *)
(* a+1..b, with the same ids and the same token lists in the same order;   *)
(* from size 0 to the last size it returns every document appended.  This  *)
(* holds when no token is longer than 65535 bytes in UTF-8.                *)
(***************************************************************************)
\* the log call that has returned, with its result
LogRead == result # Null /\ Get(call).fn = "log"

\* the documents of the calls after the a-th up to the b-th
Appended(batches, a, b) == Concat([k \in 1..(b - a) |-> batches[a + k]])

RoundTrip ==
    LET batches == Get(call).batches
    IN  \A a \in 0..Len(batches) : \A b \in a..Len(batches) :
            Get(result).reads[a][b] = Appended(batches, a, b)

TokensFit(batches) ==
    \A k \in 1..Len(batches) : \A i \in 1..Len(batches[k]) :
        \A j \in 1..Len(batches[k][i].tokens) :
            Len(Utf8Encode(Unpack(batches[k][i].tokens[j]))) <= MaxTokenBytes

\* the claim as written, for tokens of any length
C24_LogRoundTrip == LogRead => RoundTrip

C24_LogRoundTripOfFittingTokens ==
    LogRead => (TokensFit(Get(call).batches) => RoundTrip)

\* two appends of documents, the second read back on its own, with a token
\* of two bytes and a document without tokens among them
C24_Witness ==
    /\ LogRead
    /\ LET batches == Get(call).batches
       IN  /\ Len(batches[1]) = 2 /\ Len(batches[2]) = 2
           /\ batches[1][2].tokens = << >>
           /\ batches[2][1].tokens = << Pack(<<233>>) >>
           /\ Get(result).reads[1][2] = batches[2]
           /\ Get(result).sizes[1] > 0 /\ Get(result).sizes[2] > Get(result).sizes[1]

(***************************************************************************)
(* C25.  A document for which the indexing tokenizer returns no token, or  *)
(* empty tokens only, is recorded in addedIds by an add that succeeds:     *)
(* hasDocument of its id is true and a strict add of the id fails from     *)
(* then on, while no log record and no posting is made for it and no       *)
(* search returns it.  The documents meant are those whose id no other     *)
(* document of the same call bears (C2 is about the calls that repeat an   *)
(* id).  C25_Untokenized is the same for every later state: an added id    *)
(* without a log record is in no posting list and in no search result.     *)
(***************************************************************************)
Tokenless(doc) == TokensOf(doc) = { }

\* the texts of the model and one of empty tokens only
C25_Texts == Texts \cup { << << >> >> }

C25_DocArrays == UNION { [1..n -> [id : Ids, text : C25_Texts]] : n \in 0..MaxDocs }

HasRecord(e, id) ==
    \E type \in { "word", "char" } : id \in Range(IdsOf(LogRecords(cacheOf(e, type))))

Posted(e, id) ==
    \E f \in DOMAIN e.segFiles : \E k \in 1..e.segFiles[f].count :
        id \in Range(e.segFiles[f].entries[k].postings)

Found(e, id) == \E query \in Queries : id \in ResultIds(searchOp(e, query, -1).value)

C25_Effect(r, d) ==
    /\ hasDocument(r.e, d.id)
    /\ ~addDocumentsOp(r.e, << d >>).ok
    /\ ~HasRecord(r.e, d.id)
    /\ ~Posted(r.e, d.id)
    /\ ~Found(r.e, d.id)

C25_Untokenized ==
    \A id \in Cur.addedIds :
        ~HasRecord(Cur, id) =>
            /\ hasDocument(Cur, id)
            /\ \A text \in C25_Texts : ~addDocumentsOp(Cur, << [id |-> id, text |-> text] >>).ok
            /\ ~Posted(Cur, id)
            /\ ~Found(Cur, id)

Fresh(config) ==
    [wordCache |-> NoFile, charCache |-> NoFile, segFiles |-> << >>,
     metaFile |-> NoFile, deletedFile |-> NoFile, addedFile |-> NoFile,
     cfg |-> config, initialized |-> FALSE, inBatch |-> FALSE,
     pending |-> [word |-> 0, char |-> 0], meta |-> EmptyMeta,
     deletedIds |-> { }, addedIds |-> { }, segments |-> << >>]

\* the files of the segments of a type, by number
SegmentNumbers(e, type) == { f[2] : f \in { g \in DOMAIN e.segFiles : g[1] = type } }

C26_ClearAllIsFresh ==
    LET e == clearAllOp(Cur)
    IN  /\ e = Fresh(Cur.cfg)
        /\ e.meta.wordSegments = << >> /\ e.meta.charSegments = << >>
        /\ e.addedIds = { } /\ e.deletedIds = { }
        /\ ~e.inBatch /\ e.pending = [word |-> 0, char |-> 0]
        /\ \A id \in Ids : ~hasDocumentOp(e, id).value
        /\ \A query \in Queries : searchOp(e, query, -1).value = << >>
        /\ \A docs \in [1..1 -> Docs] :
               \A r \in { addDocumentsOp(e, docs) } :
                   /\ r = addDocumentsOp(Fresh(Cur.cfg), docs)
                   /\ r.ok /\ hasDocument(r.e, docs[1].id)
                   /\ \A type \in Types : SegmentNumbers(r.e, type) \subseteq { 1 }
                   /\ \A type \in Types :
                          tokenTotal(batchDocs(docs, type)) >= minSave(Cur.cfg, type)
                              /\ tokenTotal(batchDocs(docs, type)) > 0
                          => SegmentNumbers(r.e, type) = { 1 }

\* clearAll is called on an engine in batch mode with a pending count, a
\* deleted id, an added id and a segment file, and the deleted id is added
\* again after it
C26_Witness ==
    /\ Cur.inBatch /\ Cur.pending # [word |-> 0, char |-> 0]
    /\ Cur.deletedIds # { } /\ Cur.addedIds # { }
    /\ \E type \in Types : SegmentNumbers(Cur, type) # { }
    /\ \E id \in Cur.deletedIds :
           addDocumentsOp(clearAllOp(Cur), << [id |-> id, text |-> << <<97>>, << >>, <<97, 98>> >>] >>).ok

(***************************************************************************)
(* C27.  Tokens are routed by length, on intake and on search alike: a     *)
(* token of two code units or more goes to the word log and the word       *)
(* segments only, a token of one code unit to the char log and the char    *)
(* segments only, an empty token nowhere; a document added leaves at most  *)
(* one record in each log.  So a document added with the tokens w and c    *)
(* is found by w and by c (when the add builds at once: outside batch      *)
(* mode, min-save 0), and a term that no record of its id holds does not   *)
(* find it.  C27_Routing is the routing alone, C27_RoutedByLength the      *)
(* whole claim.                                                            *)
(***************************************************************************)
\* the terms searched: the tokens of the model and two that no text holds
C27_Terms == { <<97, 98>>, <<98, 97>>, <<97>>, <<98>>, <<96, 99>> }

\* the records a call has appended to the log of a type
NewRecords(pre, post, type) ==
    SubSeq(LogRecords(cacheOf(post, type)), Len(LogRecords(cacheOf(pre, type))) + 1,
           Len(LogRecords(cacheOf(post, type))))

C27_Adds(docs) == { addDocumentsOp(Cur, docs), addDocumentsIfMissingOp(Cur, docs) }

\* some log record of id holds the token
Contains(e, id, t) ==
    \E type \in Types : \E rec \in Range(LogRecords(cacheOf(e, type))) :
        rec.id = id /\ t \in Range(rec.tokens)

\* the engine with the catalog of one type emptied
Without(e, type) ==
    [e EXCEPT !.meta = IF type = "word" THEN [@ EXCEPT !.wordSegments = << >>]
                       ELSE [@ EXCEPT !.charSegments = << >>]]

C27_Intake ==
    \A docs \in DocArrays : \A r \in C27_Adds(docs) : \A type \in Types :
        \A new \in { NewRecords(init(Cur), r.e, type) } :
            /\ \A rec \in Range(new) :
                   /\ rec.tokens # << >>
                   /\ \A t \in Range(rec.tokens) : Len(t) > 0 /\ TypeOf(t) = type
            /\ Len(new) <= Len(r.accepted)
            /\ new = batchDocs(r.accepted, type)

C27_SearchRouting ==
    \A t \in C27_Terms :
        LET other == IF TypeOf(t) = "word" THEN "char" ELSE "word"
        IN  /\ searchOp(Without(init(Cur), other), << t >>, -1).value
                   = searchOp(init(Cur), << t >>, -1).value
            /\ searchOp(Without(init(Cur), TypeOf(t)), << t >>, -1).value = << >>
            /\ searchOp(init(Cur), << << >> >>, -1).value = << >>

C27_FoundByOwnTokens ==
    \A docs \in DocArrays : \A r \in C27_Adds(docs) :
        \A i \in 1..Len(r.accepted) : \A t \in TokensOf(r.accepted[i]) :
            (~Cur.inBatch /\ minSave(Cur.cfg, TypeOf(t)) = 0)
                => r.accepted[i].id \in Finds(r.e, t)

C27_NotFoundByOtherTerms ==
    \A id \in Ids : \A t \in C27_Terms :
        ~Contains(Cur, id, t) => id \notin Finds(init(Cur), t)

C27_Routing == C27_Intake /\ C27_SearchRouting /\ C27_FoundByOwnTokens

C27_RoutedByLength == C27_Routing /\ C27_NotFoundByOtherTerms

(***************************************************************************)
(* C28.  After any sequence of calls, no posting list of any segment file  *)
(* holds the same document id more than once.                              *)
(***************************************************************************)
C28_NoDuplicatePostings == \A id \in Ids : ~PostedTwice(Cur, id)

(***************************************************************************)
(* C29.  A segment file with a malformed header is reported as a failure   *)
(* of the load: the engine takes the segment as missing, so no handle      *)
(* holds the buffer of such a file, a search of the segment returns        *)
(* nothing, and every query gives what it gives with the file absent.      *)
(***************************************************************************)
\* the handles that hold the buffer of a malformed file
MalformedHandles(e) ==
    { f \in DOMAIN e.segments : e.segments[f] # Null /\ Malformed(Get(e.segments[f])) }

\* the engine with its malformed files taken out of the store
WithoutMalformed(e) ==
    [e EXCEPT !.segFiles =
         [f \in { g \in DOMAIN e.segFiles : ~Malformed(e.segFiles[g]) } |-> e.segFiles[f]]]

C29_MalformedIsMissing ==
    LET e == init(reopenOp(Cur))
    IN  /\ MalformedHandles(Cur) = { }
        /\ MalformedHandles(e) = { }
        /\ \A f \in DOMAIN e.segments : \A t \in C27_Terms :
               (f \in DOMAIN e.segFiles /\ Malformed(e.segFiles[f]))
                   => segmentSearch(e.segments[f], t) = << >>
        /\ SameResults(e, init(reopenOp(WithoutMalformed(Cur))))

(***************************************************************************)
(* C30.  The save that ends an add, removeDocument or endBatch is atomic   *)
(* for a process that dies in it: the catalog, the added ids and the       *)
(* deleted ids found in the store by the next engine are together those of *)
(* before the call or those of after it, and no id is loaded into both     *)
(* addedIds and deletedIds.                                                *)
(***************************************************************************)
\* what MetaManager.load reads from the blobs of the store
Blobs(e) ==
    LET loaded == metaLoad(reopenOp(e))
    IN  << loaded.meta, loaded.deletedIds, loaded.addedIds >>

\* the store is left as before the call or as after it
PreOrPost(died, post) == Blobs(died) \in { Blobs(Cur), Blobs(post) }

C30_AtomicSave ==
    /\ addedIds \cap deletedIds = { }
    /\ \A at \in SavePoints :
           /\ \A id \in Ids :
                  PreOrPost(removeDocumentFailingOp(Cur, id, at), removeDocumentOp(Cur, id))
           /\ PreOrPost(Get(endBatchFailingOp(Cur, at)), endBatchOp(Cur))
           /\ \A docs \in DocArrays :
                  /\ \A died \in addDocumentsFailingOp(Cur, docs, at) :
                         PreOrPost(died, addDocumentsOp(Cur, docs).e)
                  /\ \A died \in addDocumentsIfMissingFailingOp(Cur, docs, at) :
                         PreOrPost(died, addDocumentsIfMissingOp(Cur, docs).e)

(***************************************************************************)
(* C31.  A strict add that is rejected for an id conflict has no effect:   *)
(* every blob of the store (both logs, the segment files, the catalog and  *)
(* the id blobs) is as before the call, and the engine holds what #init    *)
(* alone leaves in it (nothing else when it was initialized already), so   *)
(* addedIds, the catalog and the pending counts are unchanged; this holds  *)
(* also when documents without a conflict precede the conflicting one.     *)
(***************************************************************************)
StoreOf(e) ==
    << e.wordCache, e.charCache, e.segFiles, e.metaFile, e.deletedFile, e.addedFile >>

C31_RejectedAddHasNoEffect ==
    \A docs \in DocArrays :
        LET r == addDocumentsOp(Cur, docs)
        IN  ~r.ok =>
                /\ StoreOf(r.e) = StoreOf(Cur)
                /\ r.e = init(Cur)
                /\ initialized => r.e = Cur

\* an initialized engine with a record in a log rejects an array whose first
\* document has tokens and a new id and whose second document has an added id
C31_Witness ==
    /\ initialized
    /\ wordCache # NoFile
    /\ \E docs \in DocArrays :
           /\ Len(docs) = 2
           /\ ~hasDocument(Cur, docs[1].id)
           /\ Len(docs[1].text) > 0
           /\ docs[2].id \in addedIds
           /\ ~addDocumentsOp(Cur, docs).ok

(***************************************************************************)
(* C32.  An add and an endBatch write to the store in this order: the log  *)
(* appends, then the segment files, then the catalog and the id blobs.  So *)
(* wherever the call is cut short, a segment file that differs from before *)
(* the call finds both logs as the call leaves them, and a catalog or id   *)
(* blob that differs finds the logs and the segment files as the call      *)
(* leaves them.  Hence the persisted catalog has no descriptor that ends   *)
(* beyond its log, and none with tokenCount >= minSave and no segment      *)
(* file, also in a store left by a process that ended inside an add.       *)
(***************************************************************************)
LogsOf(e) == << e.wordCache, e.charCache >>

SavedOf(e) == << e.metaFile, e.deletedFile, e.addedFile >>

\* the store of cut, where a call from pre to post was cut short, has the
\* writes of the call in their order
WritesInOrder(pre, cut, post) ==
    /\ cut.segFiles # pre.segFiles => LogsOf(cut) = LogsOf(post)
    /\ SavedOf(cut) # SavedOf(pre) =>
           LogsOf(cut) = LogsOf(post) /\ cut.segFiles = post.segFiles

PersistedCatalog == IF metaFile # NoFile THEN Get(metaFile) ELSE EmptyMeta

C32_PersistedCatalogSound ==
    \A type \in Types :
        LET segs == getSegments(PersistedCatalog, type)
        IN  \A i \in 1..Len(segs) :
                /\ segs[i].start <= segs[i].end
                /\ segs[i].end <= getFileSize(cacheOf(Cur, type))
                /\ segs[i].tokenCount >= minSave(cfg, type)
                       => segs[i].filename \in DOMAIN segFiles

C32_WriteOrder ==
    /\ C32_PersistedCatalogSound
    /\ \A post \in { endBatchOp(Cur) } : \A at \in EndFaults :
           \A cut \in endBatchFailingOp(Cur, at) :
               /\ WritesInOrder(Cur, cut, post)
               /\ LogsOf(cut) = LogsOf(Cur)
    /\ \A docs \in DocArrays :
           /\ \A post \in { addDocumentsOp(Cur, docs).e } : \A at \in AddFaults :
                  \A cut \in addDocumentsFailingOp(Cur, docs, at) :
                      /\ WritesInOrder(init(Cur), cut, post)
                      /\ at \in { "wordBuild", "charBuild" } =>
                             LogsOf(cut) = LogsOf(post) /\ SavedOf(cut) = SavedOf(Cur)
           /\ \A post \in { addDocumentsIfMissingOp(Cur, docs).e } : \A at \in AddFaults :
                  \A cut \in addDocumentsIfMissingFailingOp(Cur, docs, at) :
                      WritesInOrder(init(Cur), cut, post)

\* a store left by a process that ended after an append: the persisted
\* catalog has a descriptor with its segment file, and the word log holds
\* bytes beyond the last descriptor
C32_Witness ==
    /\ ~initialized
    /\ \E i \in 1..Len(PersistedCatalog.wordSegments) :
           PersistedCatalog.wordSegments[i].filename \in DOMAIN segFiles
    /\ Len(PersistedCatalog.wordSegments) > 0
    /\ PersistedCatalog.wordSegments[Len(PersistedCatalog.wordSegments)].end
           < getFileSize(wordCache)

(***************************************************************************)
(* C33.  Sealed segments are immutable.  In every catalog the i-th         *)
(* descriptor of a type is named <type>_seg_<i>.bin (so the filenames are  *)
(* pairwise distinct), and no add, endBatch or removeDocument changes a    *)
(* descriptor that has a successor, or its segment file: after the call    *)
(* the catalog, persisted and in memory, has the same descriptor in the    *)
(* same place and the store has the same file under its name.              *)
(***************************************************************************)
PersistedOf(e) == IF e.metaFile # NoFile THEN Get(e.metaFile) ELSE EmptyMeta

\* the descriptors of catalog m that have a successor are in m2 unchanged,
\* and so are their files
SealedKept(m, files, m2, files2) ==
    \A type \in Types :
        LET segs == getSegments(m, type)
            segs2 == getSegments(m2, type)
        IN  \A i \in 1..(Len(segs) - 1) :
                /\ i <= Len(segs2)
                /\ segs2[i] = segs[i]
                /\ readFile(files2, segs[i].filename) = readFile(files, segs[i].filename)

KeepsSealed(pre, post) ==
    /\ SealedKept(PersistedOf(pre), pre.segFiles, PersistedOf(post), post.segFiles)
    /\ pre.initialized => SealedKept(pre.meta, pre.segFiles, post.meta, post.segFiles)

C33_NamedByPosition ==
    \A type \in Types : \A m \in CatalogsOf(Cur) :
        \A i \in 1..Len(getSegments(m, type)) :
            getSegments(m, type)[i].filename = SegmentName(type, i)

C33_SealedSegmentsImmutable ==
    /\ C33_NamedByPosition
    /\ KeepsSealed(Cur, endBatchOp(Cur))
    /\ \A id \in Ids : KeepsSealed(Cur, removeDocumentOp(Cur, id))
    /\ \A docs \in DocArrays :
           /\ KeepsSealed(Cur, addDocumentsOp(Cur, docs).e)
           /\ KeepsSealed(Cur, addDocumentsIfMissingOp(Cur, docs).e)

(***************************************************************************)
(* C34.  After every completed add and endBatch each catalogued segment    *)
(* that has a file answers from the log: searching the segment for a token *)
(* returns exactly the ids of the log records in the descriptor's          *)
(* [start, end) whose token list holds the token, in record order, and     *)
(* nothing for a token that no record of the range holds.                  *)
(* C34_DerivableWithoutCollision is the same for the terms whose hash no   *)
(* other token of the model shares.                                        *)
(***************************************************************************)
\* the ids of the records of seg's range that hold token t
RangeIds(e, type, seg, t) ==
    LET recs == SelectSeq(readRange(cacheOf(e, type), seg.start, seg.end),
                          LAMBDA d : t \in Range(d.tokens))
    IN  [k \in 1..Len(recs) |-> recs[k].id]

\* the buffer the engine searches for a segment: the one its handle holds,
\* or the file when no handle holds one
HandleOf(e, filename) ==
    IF filename \in DOMAIN e.segments /\ e.segments[filename] # Null
    THEN e.segments[filename]
    ELSE readFile(e.segFiles, filename)

Derivable(e, terms) ==
    \A type \in Types :
        LET segs == getSegments(e.meta, type)
        IN  \A i \in 1..Len(segs) :
                segs[i].filename \in DOMAIN e.segFiles =>
                    \A t \in terms :
                        segmentSearch(HandleOf(e, segs[i].filename), t)
                            = RangeIds(e, type, segs[i], t)

DerivableAfterCalls(terms) ==
    /\ Derivable(endBatchOp(Cur), terms)
    /\ \A docs \in DocArrays :
           /\ Derivable(addDocumentsOp(Cur, docs).e, terms)
           /\ Derivable(addDocumentsIfMissingOp(Cur, docs).e, terms)

C34_SegmentsDerivableFromLog == DerivableAfterCalls(C27_Terms)

C34_DerivableWithoutCollision == DerivableAfterCalls({ <<97, 98>>, <<97>>, <<98>>, <<99, 99>> })

(***************************************************************************)
(* C35.  Tokens held back below minSave are indexed once their segment is  *)
(* sealed: every descriptor that has a successor has its segment file, and *)
(* every added document with a log record in the range of such a           *)
(* descriptor is returned by search for each token of that record.         *)
(***************************************************************************)
\* the log records of the ranges of the descriptors of a type that have a successor
SealedRecords(e, type) ==
    LET segs == getSegments(e.meta, type)
    IN  UNION { Range(readRange(cacheOf(e, type), segs[i].start, segs[i].end)) :
                  i \in 1..(Len(segs) - 1) }

C35_SealedFilesExist ==
    \A type \in Types :
        \A i \in 1..(Len(getSegments(meta, type)) - 1) :
            getSegments(meta, type)[i].filename \in DOMAIN segFiles

C35_SealedRecordsFound ==
    \A type \in Types : \A d \in SealedRecords(Cur, type) :
        d.id \in addedIds =>
            \A t \in Range(d.tokens) :
                d.id \in ResultIds(searchOp(Cur, << t >>, -1).value)

C35_HeldBackTokensIndexed == C35_SealedFilesExist /\ C35_SealedRecordsFound

(***************************************************************************)
(* C36.  Segment search has no false positives: in a segment built from    *)
(* documents with distinct ids, the search of a term that none of them     *)
(* holds returns the empty list, also when an indexed token has the hash   *)
(* of the term.  C36_NoFalsePositiveInRun is the part for a term whose     *)
(* hash at least two indexed tokens have.                                  *)
(***************************************************************************)
\* the indexed tokens that have the hash of the term searched
Colliding ==
    { t \in UNION { Range(Get(call).docs[i].tokens) : i \in 1..Len(Get(call).docs) } :
        Hash(t) = Hash(Get(call).term) }

C36_NoFalsePositive ==
    Searched => (Get(call).term \notin Colliding => Get(result) = << >>)

C36_NoFalsePositiveInRun ==
    Searched =>
        (Get(call).term \notin Colliding /\ Cardinality(Colliding) # 1 => Get(result) = << >>)

(***************************************************************************)
(* C37.  readRange over a byte range that ends inside a record stops       *)
(* cleanly: it returns a prefix of the documents appended, each with its   *)
(* whole token list, and no document made from the partial record.         *)
(* C37_CutInHeaderStopsCleanly is the same for the ranges that end at a    *)
(* record boundary or within the first eight bytes of a record.            *)
(***************************************************************************)
\* the cut call that has returned, with its result
CutReturned == result # Null /\ Get(call).fn = "cut"

IsPrefix(s, t) == Len(s) <= Len(t) /\ \A i \in 1..Len(s) : s[i] = t[i]

\* the sizes of the log after each record of docs, from 0
RecordEnds(docs) ==
    { getFileSize(appendBatch(NoFile, SubSeq(docs, 1, n))) : n \in 0..Len(docs) }

C37_TruncatedReadIsPrefix ==
    CutReturned => IsPrefix(Get(result), Get(call).docs)

C37_CutInHeaderStopsCleanly ==
    CutReturned =>
        ((\E b \in RecordEnds(UnpackDocs(Get(call).docs)) :
              b <= Get(call).end /\ Get(call).end < b + 8)
            => IsPrefix(Get(result), Get(call).docs))

(***************************************************************************)
(* C38.  Every id that search returns is in addedIds when the search       *)
(* returns (so hasDocument is true for it and it is not deleted), in every *)
(* state that calls can reach, those that ended in a storage error of the  *)
(* blob store included.                                                    *)
(***************************************************************************)
C38_ResultsAreAdded ==
    \A query \in Queries, limit \in Limits :
        LET r == searchOp(Cur, query, limit)
        IN  /\ ResultIds(r.value) \subseteq r.e.addedIds
            /\ ResultIds(r.value) \cap r.e.deletedIds = { }
            /\ \A id \in ResultIds(r.value) : hasDocument(r.e, id)

(***************************************************************************)
(* C39.  When two addDocuments calls with disjoint ids are started on one  *)
(* engine without awaiting the first, so that they interleave at the calls *)
(* of the blob store, then once both have returned the catalog has         *)
(* pairwise distinct filenames, every segment starts where the one before  *)
(* it ends, and each document is indexed exactly once: for every token of  *)
(* the document, exactly one catalogued segment lists its id.              *)
(***************************************************************************)
BothDone == \A p \in Callers : inFlight[p].pc = "done" /\ Len(inFlight[p].docs) > 0

DistinctFilenames(e) ==
    \A type \in Types :
        LET segs == getSegments(e.meta, type)
        IN  \A i, j \in 1..Len(segs) : i # j => segs[i].filename # segs[j].filename

Contiguous(e) ==
    \A type \in Types :
        LET segs == getSegments(e.meta, type)
        IN  \A i \in 2..Len(segs) : segs[i].start = segs[i - 1].end

IndexedOnce(e, docs) ==
    \A type \in Types :
        LET segs == getSegments(e.meta, type)
            recs == batchDocs(docs, type)
        IN  \A k \in 1..Len(recs) : \A t \in Range(recs[k].tokens) :
                Cardinality({ i \in 1..Len(segs) :
                    recs[k].id \in Range(segmentSearch(HandleOf(e, segs[i].filename), t)) }) = 1

C39_OverlappingAdds ==
    BothDone =>
        /\ DistinctFilenames(Cur)
        /\ Contiguous(Cur)
        /\ \A p \in Callers : IndexedOnce(Cur, inFlight[p].docs)

\* a call that runs alone, stretch after stretch, leaves what the awaited
\* call leaves
RECURSIVE RunAlone(_)
RunAlone(r) ==
    IF r.c.pc \in { "done", "thrown" } THEN r.e
    ELSE RunAlone(addDocumentsResume(r.e, r.c))

C39_AloneAsAwaited ==
    initialized =>
        \A docs \in DocArrays :
            firstConflict(Cur, docs, 1) = 0 =>
                RunAlone(addDocumentsStart(Cur, docs)) = addDocumentsOp(Cur, docs).e

====
